---- MODULE Spec2Model ----
(***************************************************************************)
(* Model of the geometry and fingerprinting core of InteractiveNet:        *)
(*   src/interactivenet/preprocessing/fingerprinting.py  (FingerPrint)     *)
(*   src/interactivenet/preprocessing/preprocessing.py   (Preprocessing)   *)
(*   src/interactivenet/utils/utils.py                   (read_processed)  *)
(*   src/transforms.py    (resample_label, resample_point, Resamplingd,    *)
(*                         BoudingBoxd)                                    *)
(*                                                                         *)
(* Every function is an operator computed the way the Python computes it.  *)
(* Real numbers (spacings, padding fractions, sizes after true division)   *)
(* are exact rationals: a pair <<numerator, denominator>> or an integer    *)
(* numerator over a documented fixed denominator.                          *)
(*                                                                         *)
(* Each function has a specification of its own (SpecPad, SpecBBox, ...)   *)
(* that draws the arguments in Init and applies the function in an action. *)
(* The variables of the other functions stay Idle in that specification.   *)
(***************************************************************************)
EXTENDS Integers, Sequences, FiniteSets, TLC

VARIABLES
    pad,    \* one call of FingerPrint.calculate_padded_shape
    bb,     \* one call of calculate_bbox (+ extract_bbox_region)
    ks,     \* one call of FingerPrint.get_kernels_strides, iteration by iteration
    rs,     \* one call of FingerPrint.get_resampling_strategy
    pt,     \* one call of resample_point
    fp,     \* a FingerPrint object and the position of its __call__
    sf,     \* one call of FingerPrint.sanity_files
    cv,     \* one call of FingerPrint.crossval
    pp,     \* the Preprocessing object and the position of its __call__
    disk,   \* the files the run has written below save_location
    rd,     \* one call of Resamplingd.__call__
    rl,     \* one call of resample_label, class by class
    sm,     \* one call of Resamplingd.sanity_in_mask
    ss,     \* one call of Preprocessing.save_sample
    rp      \* one call of utils.read_processed on save_location

vars == <<pad, bb, ks, rs, pt, fp, sf, cv, pp, disk, rd, rl, sm, ss, rp>>

Idle == [pc |-> "idle"]

Axes == 1..3

Max2(a, b) == IF a >= b THEN a ELSE b

Min2(a, b) == IF a <= b THEN a ELSE b

\* The tuples of length 3 over S (a shape, a spacing vector, a voxel index).
Vec3(S) == S \X S \X S

(***************************************************************************)
(* calculate_padded_shape                                                  *)
(***************************************************************************)
MaxShape == 4
MaxPadNum == 2
MaxPadDen == 2
MaxDiv == 4

\* math.ceil(x * padding) for x >= 0 and padding = p[1] / p[2] > 0.
CeilMul(x, p) == (x * p[1] + p[2] - 1) \div p[2]

\* Python's None for the divisible_by argument.
None == "None"

\* `if divisible_by:` is false for None and for an empty list.
Truthy(divisible_by) == divisible_by # None /\ Len(divisible_by) > 0

\* fingerprinting.py:243-244: a one-element list is wrapped, not repeated:
\* [divisible_by] * n is a list of n lists.  Each element of the result is
\* tagged with its Python type: an int, or a list.
broadcast_divisible_by(divisible_by, n) ==
    IF Len(divisible_by) = 1
    THEN [i \in 1..n |-> [type |-> "list", v |-> divisible_by]]
    ELSE [i \in 1..Len(divisible_by) |-> [type |-> "int", v |-> divisible_by[i]]]

\* fingerprinting.py:247-249 for one axis: the residue is ADDED.
pad_axis(x, d) ==
    LET residue == x % d
    IN  IF residue # 0 THEN x + residue ELSE x

\* The whole function: [err, val].  int % list raises TypeError.
calculate_padded_shape(shape, padding, divisible_by) ==
    LET new_shape == [i \in 1..Len(shape) |-> shape[i] + CeilMul(shape[i], padding)]
    IN  IF ~Truthy(divisible_by)
        THEN [err |-> "none", val |-> new_shape]
        ELSE LET d == broadcast_divisible_by(divisible_by, Len(new_shape))
             IN  IF \E i \in 1..Len(new_shape) : d[i].type # "int"
                 THEN [err |-> "TypeError", val |-> <<>>]
                 ELSE [err |-> "none",
                       val |-> [i \in 1..Len(new_shape) |-> pad_axis(new_shape[i], d[i].v)]]

PadShapes == Vec3(0..MaxShape)

Paddings == {<<n, d>> : n \in 1..MaxPadNum, d \in 1..MaxPadDen}

Divisors == Vec3(1..MaxDiv) \cup {<<d>> : d \in 1..MaxDiv} \cup {None}

\* The argument sets of SpecPad.
InitPad ==
    /\ pad \in [pc : {"ready"}, shape : PadShapes, padding : Paddings,
                divisible_by : Divisors, out : {None}]
    /\ bb = Idle
    /\ ks = Idle
    /\ rs = Idle
    /\ pt = Idle
    /\ fp = Idle
    /\ sf = Idle
    /\ cv = Idle
    /\ pp = Idle
    /\ disk = Idle
    /\ rd = Idle
    /\ rl = Idle
    /\ sm = Idle
    /\ ss = Idle
    /\ rp = Idle

PadCall ==
    /\ pad.pc = "ready"
    /\ pad' = [pad EXCEPT !.pc = "done",
                          !.out = calculate_padded_shape(pad.shape, pad.padding,
                                                         pad.divisible_by)]
    /\ UNCHANGED <<bb, ks, rs, pt, fp, sf, cv, pp, disk, rd, rl, sm, ss, rp>>

NextPad == PadCall

SpecPad == InitPad /\ [][NextPad]_vars

\* C1: for every shape of non-negative integers, every positive padding
\* fraction and every vector of positive integer divisors (one per axis), the
\* padded shape is >= the input on every axis and an exact multiple of that
\* axis's divisor.
C1_PaddedShapeDivisible ==
    (pad.pc = "done" /\ pad.divisible_by # None /\ Len(pad.divisible_by) = 3) =>
        /\ pad.out.err = "none"
        /\ \A i \in Axes : /\ pad.out.val[i] >= pad.shape[i]
                            /\ pad.out.val[i] % pad.divisible_by[i] = 0

(***************************************************************************)
(* calculate_bbox / extract_bbox_region                                    *)
(*                                                                         *)
(* A 3D volume is [shape, fg]: its shape and the set of its voxels         *)
(* (0-based index triples) whose value is > 0.5.                           *)
(***************************************************************************)
MaxDim == 2
MaxRelax == 2

SetMin(S) == CHOOSE x \in S : \A y \in S : x <= y

SetMax(S) == CHOOSE x \in S : \A y \in S : x >= y

Voxels(shape) == {v \in Vec3(0..(MaxDim - 1)) : \A i \in Axes : v[i] < shape[i]}

\* np.where(data > 0.5)[i]: the indices of the foreground along axis i.
inds(data, i) == {v[i] : v \in data.fg}

\* transforms.py:302-313: per-axis min - relaxation and max + relaxation.
raw_bbox(data, relaxation) ==
    << [i \in Axes |-> SetMin(inds(data, i)) - relaxation[i]],
       [i \in Axes |-> SetMax(inds(data, i)) + relaxation[i]] >>

\* Mutant of clamp_below: the clamp at zero is left out.
clamp_below_missing(bbox) == bbox

\* transforms.py:316: bbox[bbox < 0] = 0, on both rows.
clamp_below(bbox) ==
    [r \in 1..2 |-> [i \in Axes |-> IF bbox[r][i] < 0 THEN 0 ELSE bbox[r][i]]]

\* Mutant of clamp_above: the clamp at the axis length is left out.
clamp_above_missing(bbox, shape) == bbox

\* transforms.py:317-318: x if x <= shape[i] else shape[i], on the upper row.
clamp_above(bbox, shape) ==
    << bbox[1],
       [i \in Axes |-> IF bbox[2][i] <= shape[i] THEN bbox[2][i] ELSE shape[i]] >>

\* Mutant of calculate_bbox: an empty foreground silently gives the
\* degenerate box at the origin.
calculate_bbox_degenerate(data, relaxation) ==
    IF data.fg = {}
    THEN [err |-> "none", bbox |-> << <<0, 0, 0>>, <<0, 0, 0>> >>]
    ELSE [err |-> "none",
          bbox |-> clamp_above(clamp_below(raw_bbox(data, relaxation)), data.shape)]

\* BoudingBoxd.calculate_bbox: np.min of an empty index array raises
\* ValueError before any box exists.
calculate_bbox(data, relaxation) ==
    IF data.fg = {}
    THEN [err |-> "ValueError", bbox |-> None]
    ELSE [err |-> "none",
          bbox |-> clamp_above(clamp_below(raw_bbox(data, relaxation)), data.shape)]

\* Mutant of fp_calculate_bbox: a mask without foreground gets the box of
\* the whole volume instead of an error.
fp_calculate_bbox_lenient(data, relaxation) ==
    IF data.fg = {}
    THEN [err |-> "none", bbox |-> <<<<0, 0, 0>>, data.shape>>]
    ELSE calculate_bbox(data, IF relaxation = None THEN <<0, 0, 0>> ELSE relaxation)

\* FingerPrint.calculate_bbox: the same computation; `if not relaxation`
\* replaces None by [0, 0, 0].
fp_calculate_bbox(data, relaxation) ==
    calculate_bbox(data, IF relaxation = None THEN <<0, 0, 0>> ELSE relaxation)

\* Python's slice.indices for step 1 on an axis of length n.
slice_index(a, n) ==
    LET b == IF a < 0 THEN a + n ELSE a
    IN  IF b < 0 THEN 0 ELSE IF b > n THEN n ELSE b

slice_start(bbox, shape, i) == slice_index(bbox[1][i], shape[i])

slice_stop(bbox, shape, i) == slice_index(bbox[2][i], shape[i])

\* BoudingBoxd.extract_bbox_region: data[b0x:b1x, b0y:b1y, b0z:b1z].
extract_bbox_region(data, bbox) ==
    LET lo(i) == slice_start(bbox, data.shape, i)
        hi(i) == slice_stop(bbox, data.shape, i)
    IN  [shape |-> [i \in Axes |-> Max2(0, hi(i) - lo(i))],
         fg    |-> {[i \in Axes |-> v[i] - lo(i)] :
                        v \in {w \in data.fg : \A i \in Axes : lo(i) <= w[i] /\ w[i] < hi(i)}}]

\* Volumes with no foreground, or with a foreground whose per-axis extremes
\* are those of two voxels p and q (every pair of per-axis minima and maxima
\* arises from such a foreground).
Volumes ==
    UNION {{[shape |-> s, fg |-> {}]} \cup
           {[shape |-> s, fg |-> {p, q}] : p \in Voxels(s), q \in Voxels(s)} :
           s \in Vec3(1..MaxDim)}

Relaxations == Vec3(0..MaxRelax)

InitBBox ==
    /\ bb \in [pc : {"ready"}, data : Volumes, relaxation : Relaxations \cup {None},
                by : {None}, out : {None}, region : {None}]
    /\ pad = Idle
    /\ ks = Idle
    /\ rs = Idle
    /\ pt = Idle
    /\ fp = Idle
    /\ sf = Idle
    /\ cv = Idle
    /\ pp = Idle
    /\ disk = Idle
    /\ rd = Idle
    /\ rl = Idle
    /\ sm = Idle
    /\ ss = Idle
    /\ rp = Idle

\* BoudingBoxd.__call__ on one 3D channel: the box of the volume, then the
\* region it cuts out of the same volume.  relaxation is the transform's
\* self.relaxation, a list.
BoudingBoxdCall ==
    /\ bb.pc = "ready"
    /\ bb.relaxation # None
    /\ LET r == calculate_bbox(bb.data, bb.relaxation)
       IN  bb' = [bb EXCEPT !.pc = "done", !.by = "BoudingBoxd", !.out = r,
                            !.region = IF r.err = "none"
                                       THEN extract_bbox_region(bb.data, r.bbox)
                                       ELSE None]
    /\ UNCHANGED <<pad, ks, rs, pt, fp, sf, cv, pp, disk, rd, rl, sm, ss, rp>>

\* FingerPrint.calculate_bbox(data, relaxation), relaxation possibly None.
FingerPrintBBoxCall ==
    /\ bb.pc = "ready"
    /\ bb' = [bb EXCEPT !.pc = "done", !.by = "FingerPrint",
                        !.out = fp_calculate_bbox(bb.data, bb.relaxation)]
    /\ UNCHANGED <<pad, ks, rs, pt, fp, sf, cv, pp, disk, rd, rl, sm, ss, rp>>

NextBBox == BoudingBoxdCall \/ FingerPrintBBoxCall

SpecBBox == InitBBox /\ [][NextBBox]_vars

\* The corners of the computed box.
Lower(i) == bb.out.bbox[1][i]

Upper(i) == bb.out.bbox[2][i]

BBoxReturned == bb.pc = "done" /\ bb.out.err = "none"

C3_RegionShapeIsCornerDifference ==
    (BBoxReturned /\ bb.by = "BoudingBoxd") =>
        \A i \in Axes : bb.region.shape[i] = Upper(i) - Lower(i)

\* A round trip with a relaxation that passes the end of an axis and one that
\* stays inside the volume.
C3_Witness ==
    /\ BBoxReturned /\ bb.by = "BoudingBoxd"
    /\ \E i \in Axes : SetMax(inds(bb.data, i)) + bb.relaxation[i] > bb.data.shape[i]
    /\ \E i \in Axes : /\ bb.relaxation[i] > 0
                        /\ SetMin(inds(bb.data, i)) - bb.relaxation[i] >= 0
                        /\ SetMax(inds(bb.data, i)) + bb.relaxation[i] <= bb.data.shape[i]
                        /\ bb.region.shape[i] = bb.data.shape[i]

\* C26: for every volume with foreground and every relaxation r >= 0, the
\* region extract_bbox_region returns for the box of calculate_bbox contains
\* every foreground voxel of the volume: it is never empty and no voxel on
\* the largest foreground index of an axis is cut off.
C26_RegionKeepsForeground ==
    (BBoxReturned /\ bb.by = "BoudingBoxd") =>
        /\ \A i \in Axes : bb.region.shape[i] >= 1
        /\ \A w \in bb.data.fg : <<w[1] - Lower(1), w[2] - Lower(2), w[3] - Lower(3)>>
                                     \in bb.region.fg

\* C4: a volume with no voxel > 0.5 makes the computation fail with an
\* error; no box is returned and nothing is cut out.
C4_EmptyMaskFails ==
    (bb.pc = "done" /\ bb.data.fg = {}) =>
        /\ bb.out.err = "ValueError"
        /\ bb.out.bbox = None
        /\ bb.region = None

\* FingerPrint.calculate_bbox has been called on an empty volume and raised.
C4_Witness ==
    /\ bb.pc = "done" /\ bb.data.fg = {}
    /\ bb.out.err = "ValueError"
    /\ bb.by = "FingerPrint"

(***************************************************************************)
(* get_kernels_strides                                                     *)
(*                                                                         *)
(* sizes are rationals <<numerator, denominator>> (Python's true division  *)
(* i / j); spacings are positive integers in an arbitrary unit (only their *)
(* ratios are read).                                                       *)
(***************************************************************************)
MaxSizeExp == 6
MaxSpacing == 3

RECURSIVE Pow2(_)
Pow2(k) == IF k = 0 THEN 1 ELSE 2 * Pow2(k - 1)

SeqMin(q) == SetMin({q[i] : i \in 1..Len(q)})

\* r <= k and r >= k for a rational r = <<n, d>>, d > 0.
RatLe(r, k) == r[1] <= k * r[2]

RatGe(r, k) == r[1] >= k * r[2]

\* fingerprinting.py:180
spacing_ratio(spacings) == [i \in 1..Len(spacings) |-> <<spacings[i], SeqMin(spacings)>>]

\* Mutant of stride_of: the size threshold 8 is replaced by 1.
stride_of_any_size(ratio, size) == IF RatLe(ratio, 2) /\ RatGe(size, 1) THEN 2 ELSE 1

\* fingerprinting.py:182
stride_of(ratio, size) == IF RatLe(ratio, 2) /\ RatGe(size, 8) THEN 2 ELSE 1

\* Mutant of kernel_of: ratio < 2 instead of ratio <= 2.
kernel_of_strict(ratio) == IF ratio[1] < 2 * ratio[2] THEN 3 ELSE 1

\* fingerprinting.py:185
kernel_of(ratio) == IF RatLe(ratio, 2) THEN 3 ELSE 1

\* fingerprinting.py:181-184
stride_layer(sizes, spacings) ==
    [i \in 1..Len(spacings) |-> stride_of(spacing_ratio(spacings)[i], sizes[i])]

\* fingerprinting.py:185
kernel_layer(spacings) ==
    [i \in 1..Len(spacings) |-> kernel_of(spacing_ratio(spacings)[i])]

AllOnes(stride) == \A i \in 1..Len(stride) : stride[i] = 1

\* The sizes get_kernels_strides is called with: the powers of two from 8
\* on, sizes just below a threshold (7, 15), 1, and the 20 of the
\* documented example.
KSizeValues == {1, 7, 15, 20} \cup {Pow2(k) : k \in 3..MaxSizeExp}

\* The state on entry (fingerprinting.py:178) for arguments sizes, spacings.
KernelsEntry(sizes, spacings) ==
    [pc |-> "loop", sizes0 |-> sizes, spacings0 |-> spacings,
     sizes |-> [i \in Axes |-> <<sizes[i], 1>>], spacings |-> spacings,
     kernels |-> <<>>, strides |-> <<>>]

InitKernels ==
    /\ ks \in {KernelsEntry(sizes, spacings) :
                    sizes \in Vec3(KSizeValues), spacings \in Vec3(1..MaxSpacing)}
    /\ pad = Idle
    /\ bb = Idle
    /\ rs = Idle
    /\ pt = Idle
    /\ fp = Idle
    /\ sf = Idle
    /\ cv = Idle
    /\ pp = Idle
    /\ disk = Idle
    /\ rd = Idle
    /\ rl = Idle
    /\ sm = Idle
    /\ ss = Idle
    /\ rp = Idle

\* One pass of the loop that does not break (fingerprinting.py:180-191).
KernelIterate ==
    /\ ks.pc = "loop"
    /\ LET stride == stride_layer(ks.sizes, ks.spacings)
           kernel == kernel_layer(ks.spacings)
       IN  /\ ~AllOnes(stride)
           /\ ks' = [ks EXCEPT
                  !.sizes = [i \in Axes |-> <<ks.sizes[i][1], ks.sizes[i][2] * stride[i]>>],
                  !.spacings = [i \in Axes |-> ks.spacings[i] * stride[i]],
                  !.kernels = Append(ks.kernels, kernel),
                  !.strides = Append(ks.strides, stride)]
    /\ UNCHANGED <<pad, bb, rs, pt, fp, sf, cv, pp, disk, rd, rl, sm, ss, rp>>

\* The pass that breaks, and the rest of the function
\* (fingerprinting.py:186-187, 192-194).
KernelReturn ==
    /\ ks.pc = "loop"
    /\ AllOnes(stride_layer(ks.sizes, ks.spacings))
    /\ ks' = [ks EXCEPT
           !.pc = "done",
           !.strides = <<[i \in 1..Len(ks.spacings) |-> 1]>> \o ks.strides,
           !.kernels = Append(ks.kernels, [i \in 1..Len(ks.spacings) |-> 3])]
    /\ UNCHANGED <<pad, bb, rs, pt, fp, sf, cv, pp, disk, rd, rl, sm, ss, rp>>

NextKernels == KernelIterate \/ KernelReturn

SpecKernels == InitKernels /\ [][NextKernels]_vars

\* The loop is the only thing the call does: it is never suspended.
FairSpecKernels == SpecKernels /\ WF_vars(NextKernels)

\* The rule of the claim for axis i in the current state: ratio <= 2 is
\* spacing <= 2 * min(spacing), size >= 8 is numerator >= 8 * denominator.
RatioAtMost2(i) == ks.spacings[i] <= 2 * SeqMin(ks.spacings)

SizeAtLeast8(i) == ks.sizes[i][1] >= 8 * ks.sizes[i][2]

ClaimedStride(i) == IF RatioAtMost2(i) /\ SizeAtLeast8(i) THEN 2 ELSE 1

ClaimedKernel(i) == IF RatioAtMost2(i) THEN 3 ELSE 1

C7_Iteration ==
    ks.pc = "loop" =>
        /\ ks'.pc = "loop" =>
               /\ Len(ks'.strides) = Len(ks.strides) + 1
               /\ Len(ks'.kernels) = Len(ks.kernels) + 1
               /\ \A i \in Axes :
                      /\ ks'.strides[Len(ks'.strides)][i] = ClaimedStride(i)
                      /\ ks'.kernels[Len(ks'.kernels)][i] = ClaimedKernel(i)
                      /\ ks'.spacings[i] = ks.spacings[i] * ClaimedStride(i)
                      /\ ks'.sizes[i][1] * ks.sizes[i][2] * ClaimedStride(i)
                            = ks.sizes[i][1] * ks'.sizes[i][2]
        /\ ks'.pc = "done" => \A i \in Axes : ClaimedStride(i) = 1
        /\ (ks.strides = <<>> /\ ks.spacings = <<1, 1, 3>>
               /\ ks.sizes = << <<64, 1>>, <<64, 1>>, <<20, 1>> >>) =>
               (ks'.pc = "loop" /\ ks'.strides = << <<2, 2, 1>> >>)

\* C7: in every iteration each axis gets stride 2 iff ratio <= 2 and
\* size >= 8 (else 1) and kernel 3 iff ratio <= 2 (else 1); sizes are then
\* divided and spacings multiplied by the strides; the loop stops exactly when
\* every stride is 1; spacings [1,1,3] with sizes [64,64,20] give the
\* first-iteration stride [2,2,1].
C7_StrideKernelRule == [][C7_Iteration]_vars

\* The first iteration of the example has run.
C7_Witness ==
    /\ ks.pc = "loop"
    /\ ks.sizes0 = <<64, 64, 20>> /\ ks.spacings0 = <<1, 1, 3>>
    /\ ks.strides = << <<2, 2, 1>> >>
    /\ ks.kernels = << <<3, 3, 1>> >>

\* The number of kernel/stride layers accumulated by the loop (the layers
\* added after the loop, lines 192-193, are not iterations).
Iterations == IF ks.pc = "done" THEN Len(ks.strides) - 1 ELSE Len(ks.strides)

MaxSize0 == SetMax({ks.sizes0[i] : i \in Axes})

\* C8: for positive integer sizes and positive spacings the loop terminates,
\* and the number of accumulated iterations is at most log2(max size), i.e.
\* 2^iterations <= max size.
C8_TerminatesWithinLog2 ==
    /\ [](Pow2(Iterations) <= MaxSize0)
    /\ <>(ks.pc = "done")

\* A call that returned after several iterations.
C8_Witness ==
    /\ ks.pc = "done"
    /\ Iterations >= 4
    /\ Pow2(Iterations + 2) = MaxSize0

(***************************************************************************)
(* check_anisotrophy's inner check, calculate_median,                      *)
(* get_resampling_strategy                                                 *)
(*                                                                         *)
(* A spacing is an integer number of units; one millimetre is SpacingUnit  *)
(* units, so that the median of an even number of whole-millimetre         *)
(* spacings (a half) and their 10th percentile (tenths) are integers too.  *)
(***************************************************************************)
MaxCases == 3

SpacingUnit == 2 * 10

mm(v) == [i \in 1..Len(v) |-> v[i] * SpacingUnit]

SeqMax(q) == SetMax({q[i] : i \in 1..Len(q)})

\* fingerprinting.py:150-151: np.max(spacing) / np.min(spacing) >= 3.
check(spacing) == SeqMax(spacing) >= 3 * SeqMin(spacing)

\* The k-th smallest (k = 1..Len) element of a sequence of integers.
kth(vals, k) ==
    CHOOSE v \in {vals[i] : i \in 1..Len(vals)} :
        /\ Cardinality({i \in 1..Len(vals) : vals[i] < v}) < k
        /\ Cardinality({i \in 1..Len(vals) : vals[i] <= v}) >= k

\* statistics.median: the middle element, or the mean of the two middle ones.
median(vals) ==
    LET n == Len(vals)
    IN  IF n % 2 = 1 THEN kth(vals, (n + 1) \div 2)
        ELSE (kth(vals, n \div 2) + kth(vals, n \div 2 + 1)) \div 2

\* np.percentile(vals, 10), linear interpolation at position 0.1 * (n - 1).
percentile10(vals) ==
    LET n == Len(vals)
        lo == (n - 1) \div 10
        tenths == (n - 1) % 10
        a == kth(vals, lo + 1)
        b == IF lo + 2 <= n THEN kth(vals, lo + 2) ELSE a
    IN  a + (tenths * (b - a)) \div 10

\* list(zip(*item))[axis]
column(item, axis) == [k \in 1..Len(item) |-> item[k][axis]]

\* fingerprinting.py:203-208 with std = False.
calculate_median(item) == [axis \in Axes |-> median(column(item, axis))]

\* np.argmax: the first index of the maximum.
argmax(v) == SetMin({i \in 1..Len(v) : v[i] = SeqMax(v)})

count_true(flags) == Cardinality({k \in 1..Len(flags) : flags[k]})

\* Mutant of get_resampling_strategy: `>` instead of `>=` at line 170.
get_resampling_strategy_strict(anisotrophy, spacing) ==
    LET target_spacing == calculate_median(spacing)
    IN  IF 2 * count_true(anisotrophy) > Len(anisotrophy)
        THEN [target_spacing |->
                  [target_spacing EXCEPT ![argmax(target_spacing)] =
                       percentile10(column(spacing, argmax(target_spacing)))],
              strategy |-> "Anisotropic"]
        ELSE [target_spacing |-> target_spacing, strategy |-> "Median"]

\* fingerprinting.py:166-175; anisotrophy is self.anisotrophy.
get_resampling_strategy(anisotrophy, spacing) ==
    LET target_spacing == calculate_median(spacing)
    IN  IF 2 * count_true(anisotrophy) >= Len(anisotrophy)
        THEN LET index_max == argmax(target_spacing)
             IN  [target_spacing |->
                      [target_spacing EXCEPT ![index_max] =
                           percentile10(column(spacing, index_max))],
                  strategy |-> "Anisotropic"]
        ELSE [target_spacing |-> target_spacing, strategy |-> "Median"]

\* The case spacings of the datasets, in millimetres.
PixdimCatalogue ==
    {mm(v) : v \in {<<1, 1, 1>>, <<1, 1, 2>>, <<1, 1, 3>>, <<3, 1, 1>>, <<1, 2, 4>>, <<2, 2, 5>>}}

SeqsUpTo(S, n) == UNION {[1..k -> S] : k \in 1..n}

\* The flag check_anisotrophy records for a spacing: true when the spacing
\* is anisotropic; otherwise the result of check(self.target_spacing), which
\* is either value.
FlagsFor(pixdim) ==
    {f \in [1..Len(pixdim) -> BOOLEAN] : \A k \in 1..Len(pixdim) : check(pixdim[k]) => f[k]}

InitStrategy ==
    /\ rs \in UNION {{[pc |-> "ready", pixdim |-> p, anisotrophy |-> f, out |-> None] :
                           f \in FlagsFor(p)} : p \in SeqsUpTo(PixdimCatalogue, MaxCases)}
    /\ pad = Idle
    /\ bb = Idle
    /\ ks = Idle
    /\ pt = Idle
    /\ fp = Idle
    /\ sf = Idle
    /\ cv = Idle
    /\ pp = Idle
    /\ disk = Idle
    /\ rd = Idle
    /\ rl = Idle
    /\ sm = Idle
    /\ ss = Idle
    /\ rp = Idle

\* fingerprinting.py:75
StrategyCall ==
    /\ rs.pc = "ready"
    /\ rs' = [rs EXCEPT !.pc = "done",
                        !.out = get_resampling_strategy(rs.anisotrophy, rs.pixdim)]
    /\ UNCHANGED <<pad, bb, ks, pt, fp, sf, cv, pp, disk, rd, rl, sm, ss, rp>>

NextStrategy == StrategyCall

SpecStrategy == InitStrategy /\ [][NextStrategy]_vars

AnisotropicCases == Cardinality({k \in 1..Len(rs.anisotrophy) : rs.anisotrophy[k] = TRUE})

AxisMedian(axis) == median([k \in 1..Len(rs.pixdim) |-> rs.pixdim[k][axis]])

\* The axis of largest median spacing (the first one on a tie).
LargestAxis ==
    CHOOSE a \in Axes : /\ \A b \in Axes : AxisMedian(b) <= AxisMedian(a)
                       /\ \A b \in 1..(a - 1) : AxisMedian(b) < AxisMedian(a)

\* C6: with fewer than half of the cases anisotropic the result is the
\* per-axis median and "Median"; with at least half anisotropic it is the
\* per-axis median with only the axis of largest median spacing replaced by
\* the 10th percentile of that axis, and "Anisotropic".
C6_TargetSpacingSelection ==
    rs.pc = "done" =>
        IF 2 * AnisotropicCases < Len(rs.pixdim)
        THEN /\ rs.out.strategy = "Median"
             /\ \A a \in Axes : rs.out.target_spacing[a] = AxisMedian(a)
        ELSE /\ rs.out.strategy = "Anisotropic"
             /\ \A a \in Axes \ {LargestAxis} : rs.out.target_spacing[a] = AxisMedian(a)
             /\ rs.out.target_spacing[LargestAxis]
                    = percentile10([k \in 1..Len(rs.pixdim) |-> rs.pixdim[k][LargestAxis]])

\* Exactly half of the cases anisotropic, and a 10th percentile that differs
\* from the median it replaces.
C6_Witness ==
    /\ rs.pc = "done"
    /\ 2 * AnisotropicCases = Len(rs.pixdim)
    /\ rs.out.strategy = "Anisotropic"
    /\ rs.out.target_spacing[LargestAxis] < AxisMedian(LargestAxis)

(***************************************************************************)
(* resample_point                                                          *)
(*                                                                         *)
(* nibabel's rescale_affine(affine, shape, zooms, new_shape) keeps the     *)
(* rotation of `affine`, scales its columns to the new zooms and places    *)
(* the centre voxel (new_shape - 1) // 2 where the old centre voxel        *)
(* (shape - 1) // 2 was.  inv(new_affine).dot(affine) is therefore, on     *)
(* each axis, v |-> (v - c) * s / z + c' with s the old voxel size, z the  *)
(* new spacing, c and c' the old and new centre indices: the rotation and  *)
(* the translation of `affine` cancel.  An affine is modelled by its voxel *)
(* sizes s.                                                                *)
(***************************************************************************)
PtMaxDim == 3

\* (shape - 1) // 2
centre(n) == (n - 1) \div 2

\* np.rint of the rational num / den, den > 0: to the nearest integer, a
\* half to the even neighbour.
rint(num, den) ==
    LET q == num \div den
        r == num % den
    IN  IF 2 * r < den THEN q
        ELSE IF 2 * r > den THEN q + 1
        ELSE IF q % 2 = 0 THEN q ELSE q + 1

\* transforms.py:105,109-110 on one axis: the index of old voxel v in the
\* new grid, rounded.
new_index(v, old_n, s, z, new_n) ==
    rint((v - centre(old_n)) * s + centre(new_n) * z, z)

\* Mutant of clamp_index: the clamp at the upper end is left out.
clamp_index_lower_only(x, n) == IF x < 0 THEN 0 ELSE x

\* transforms.py:112-116
clamp_index(x, n) == IF x < 0 THEN 0 ELSE IF x >= n THEN n - 1 ELSE x

AllVoxels(shape) == {v \in Vec3(0..(SeqMax(shape) - 1)) : \A i \in Axes : v[i] < shape[i]}

\* Mutant of zeros: the output starts as np.ones(shape).
ones(shape) == [shape |-> shape, fg |-> AllVoxels(shape)]

\* transforms.py:104: np.zeros(shape)
zeros(shape) == [shape |-> shape, fg |-> {}]

\* transforms.py:104-118 for one channel: [err, val].  Writing at an index
\* outside the output array raises IndexError.
resample_channel(image_d, zooms, new_spacing, shape) ==
    LET new_point(v) ==
            [i \in Axes |-> clamp_index(new_index(v[i], image_d.shape[i], zooms[i],
                                                  new_spacing[i], shape[i]), shape[i])]
        hits == {new_point(v) : v \in image_d.fg}
        resized == zeros(shape)
    IN  IF \E h \in hits : \E i \in Axes : h[i] >= shape[i] \/ h[i] < -shape[i]
        THEN [err |-> "IndexError", val |-> None]
        ELSE [err |-> "none",
              val |-> [resized EXCEPT !.fg = resized.fg \cup
                          {[i \in Axes |-> IF h[i] < 0 THEN h[i] + shape[i] ELSE h[i]] :
                               h \in hits}]]

\* transforms.py:101-123: every channel in turn, stacked.
resample_point(image, zooms, new_spacing, shape) ==
    LET chans == [c \in 1..Len(image) |-> resample_channel(image[c], zooms, new_spacing, shape)]
    IN  IF \E c \in 1..Len(image) : chans[c].err # "none"
        THEN [err |-> "IndexError", val |-> None]
        ELSE [err |-> "none", val |-> [c \in 1..Len(image) |-> chans[c].val]]

\* Shapes of the point volumes and of the target grid: slabs, one voxel
\* thick along the second axis.
PtShapes == {<<a, 1, b>> : a \in 1..PtMaxDim, b \in 1..PtMaxDim}

\* Point volumes of one channel: no point, or points p and q.
PtChannels(shape) ==
    {[shape |-> shape, fg |-> {}]} \cup
    {[shape |-> shape, fg |-> {p, q}] : p \in AllVoxels(shape), q \in AllVoxels(shape)}

\* One channel, or two channels of which the first is empty.
PtImages ==
    UNION {UNION {{<<ch>>, <<zeros(s0), ch>>} : ch \in PtChannels(s0)} : s0 \in PtShapes}

\* Voxel sizes of the old grid and spacings of the new grid, in millimetres.
PtSpacings == {<<1, 1, 1>>, <<1, 1, 2>>, <<2, 2, 1>>}

InitPoint ==
    /\ pt \in [pc : {"ready"}, image : PtImages, zooms : PtSpacings,
                new_spacing : PtSpacings, shape : PtShapes, out : {None}]
    /\ pad = Idle
    /\ bb = Idle
    /\ ks = Idle
    /\ rs = Idle
    /\ fp = Idle
    /\ sf = Idle
    /\ cv = Idle
    /\ pp = Idle
    /\ disk = Idle
    /\ rd = Idle
    /\ rl = Idle
    /\ sm = Idle
    /\ ss = Idle
    /\ rp = Idle

\* transforms.py:206
ResamplePointCall ==
    /\ pt.pc = "ready"
    /\ pt' = [pt EXCEPT !.pc = "done",
                        !.out = resample_point(pt.image, pt.zooms, pt.new_spacing, pt.shape)]
    /\ UNCHANGED <<pad, bb, ks, rs, fp, sf, cv, pp, disk, rd, rl, sm, ss, rp>>

NextPoint == ResamplePointCall

SpecPoint == InitPoint /\ [][NextPoint]_vars

\* The index an input voxel maps to on axis i before it is clamped.
Unclamped(ch, v, i) ==
    new_index(v[i], pt.image[ch].shape[i], pt.zooms[i], pt.new_spacing[i], pt.shape[i])

\* C9: resample_point does not raise on a point that maps outside the
\* target volume (target shape >= 1 on every axis): the index is clamped and
\* every foreground voxel of the output lies inside [0, targetShape).
C9_PointsClampedIntoTarget ==
    pt.pc = "done" =>
        /\ pt.out.err = "none"
        /\ \A ch \in 1..Len(pt.image) :
               /\ pt.out.val[ch].shape = pt.shape
               /\ \A v \in pt.out.val[ch].fg :
                      \A i \in Axes : 0 <= v[i] /\ v[i] < pt.shape[i]

\* One point mapped below zero and one mapped beyond the end of an axis.
C9_Witness ==
    /\ pt.pc = "done" /\ pt.out.err = "none"
    /\ \E ch \in 1..Len(pt.image) :
           /\ \E v \in pt.image[ch].fg : \E i \in Axes : Unclamped(ch, v, i) < 0
           /\ \E v \in pt.image[ch].fg : \E i \in Axes : Unclamped(ch, v, i) >= pt.shape[i]

IdentityMapping ==
    /\ pt.new_spacing = pt.zooms
    /\ \A ch \in 1..Len(pt.image) : pt.shape = pt.image[ch].shape

\* C10: under the identity mapping (new spacing and target shape equal the
\* old ones) the output has exactly the input's foreground voxels; under any
\* other rescale the foreground count of each output channel is <= that of
\* the input channel.
C10_ForegroundCount ==
    pt.pc = "done" =>
        /\ pt.out.err = "none"
        /\ Len(pt.out.val) = Len(pt.image)
        /\ \A ch \in 1..Len(pt.image) :
               /\ IdentityMapping => pt.out.val[ch].fg = pt.image[ch].fg
               /\ Cardinality(pt.out.val[ch].fg) <= Cardinality(pt.image[ch].fg)

\* The identity mapping applied to two distinct points.
C10_Witness ==
    /\ pt.pc = "done" /\ pt.out.err = "none"
    /\ IdentityMapping
    /\ \E ch \in 1..Len(pt.image) : Cardinality(pt.out.val[ch].fg) = 2

(***************************************************************************)
(* FingerPrint: the object after __init__ and the per-case scan of         *)
(* __call__ (fingerprinting.py:47-67).                                     *)
(*                                                                         *)
(* A loaded file is [affine, shape, fg]: the name of its affine (files     *)
(* with the same name have equal affines), its shape, and its voxels       *)
(* > 0.5.  For a mask every foreground voxel has the value 1.  A case is   *)
(* the image, mask and annotation zip() puts together, with the spacing    *)
(* of the image header.                                                    *)
(***************************************************************************)
Loaded(affine, shape, fg) == [affine |-> affine, shape |-> shape, fg |-> fg]

CaseShape == <<17, 17, 2>>

\* A case whose three files agree, with its annotation inside the mask.
GoodCase(pixdim) ==
    [pixdim |-> pixdim,
     img   |-> Loaded("RAS", CaseShape, {}),
     mask  |-> Loaded("RAS", CaseShape, {<<0, 0, 0>>, <<16, 16, 0>>}),
     annot |-> Loaded("RAS", CaseShape, {<<0, 0, 0>>})]

\* The cases of the datasets: good cases of three spacings, and anisotropic
\* cases with one defect each: an annotation with another affine, a mask of
\* another shape, an annotation voxel outside the mask, a mask without
\* foreground.
CaseCatalogue ==
    {GoodCase(mm(v)) : v \in {<<1, 1, 1>>, <<1, 1, 3>>, <<3, 1, 1>>}} \cup
    {[GoodCase(mm(<<1, 1, 3>>)) EXCEPT !.annot.affine = "LPS"],
     [GoodCase(mm(<<1, 1, 3>>)) EXCEPT !.mask.shape = <<17, 17, 1>>],
     [GoodCase(mm(<<1, 1, 3>>)) EXCEPT !.annot.fg = {<<0, 0, 1>>}],
     [GoodCase(mm(<<1, 1, 3>>)) EXCEPT !.mask.fg = {}, !.annot.fg = {}]}

\* fingerprinting.py:28-42: the attributes __init__ sets.  target_spacing and
\* in_mask are not among them: None stands for a missing attribute.
FingerPrintInit(cases) ==
    [cases |-> cases,
     dim |-> <<>>, pixdim |-> <<>>, orientation |-> <<>>, anisotrophy |-> <<>>,
     names |-> <<>>, bbox |-> <<>>,
     target_spacing |-> None, in_mask |-> None,
     pc |-> "scan", i |-> 1, err |-> "none"]

\* Mutant of sanity_same_metadata: the annotation is left out of the
\* comparison.
sanity_same_metadata_image_mask(img, mask, annot) ==
    img.affine = mask.affine /\ img.shape = mask.shape

\* fingerprinting.py:130-138: true when the check passes.
sanity_same_metadata(img, mask, annot) ==
    /\ img.affine = mask.affine /\ mask.affine = annot.affine
    /\ img.shape = mask.shape /\ mask.shape = annot.shape

\* fingerprinting.py:149-153: `check(spacing) or check(self.target_spacing)`;
\* the right operand is evaluated only when the left one is false, and
\* reading a missing attribute raises AttributeError.
check_anisotrophy(self, spacing) ==
    IF check(spacing) THEN [err |-> "none", val |-> TRUE]
    ELSE IF self.target_spacing = None THEN [err |-> "AttributeError", val |-> None]
    ELSE [err |-> "none", val |-> check(self.target_spacing)]

\* fingerprinting.py:140-147: [err, in_mask].  A voxel of the annotation on a
\* mask voxel that is not 1 reaches `warn.warning(...)`; the module defines
\* no name `warn`, so the call raises NameError before self.in_mask is set.
sanity_annotation_in_mask(mask, annot) ==
    IF \E v \in annot.fg : v \notin mask.fg
    THEN [err |-> "NameError", in_mask |-> None]
    ELSE [err |-> "none", in_mask |-> TRUE]

Raise(self, err) == [self EXCEPT !.pc = "raised", !.err = err]

\* The name of the i-th case: the stem of its mask file.
CaseName(i) == i

\* fingerprinting.py:48-67: the body of the loop for case number self.i.
scan_case(self) ==
    LET c == self.cases[self.i]
        s1 == [self EXCEPT !.dim = Append(self.dim, c.img.shape),
                           !.pixdim = Append(self.pixdim, c.pixdim)]
        aniso == check_anisotrophy(s1, c.pixdim)
        s2 == [s1 EXCEPT !.anisotrophy = Append(s1.anisotrophy, aniso.val),
                         !.orientation = Append(s1.orientation, c.img.affine)]
        inm == sanity_annotation_in_mask(c.mask, c.annot)
        s3 == [s2 EXCEPT !.in_mask = inm.in_mask]
        box == fp_calculate_bbox(c.mask, None)
    IN  IF ~sanity_same_metadata(c.img, c.mask, c.annot) THEN Raise(self, "AssertionError")
        ELSE IF aniso.err # "none" THEN Raise(s1, aniso.err)
        ELSE IF inm.err # "none" THEN Raise(s2, inm.err)
        ELSE IF box.err # "none" THEN Raise(s3, box.err)
        ELSE [s3 EXCEPT !.bbox = Append(s3.bbox,
                                        [a \in Axes |-> box.bbox[2][a] - box.bbox[1][a]]),
                        !.names = Append(s3.names, CaseName(self.i)),
                        !.i = self.i + 1]

InitScan ==
    /\ fp \in {FingerPrintInit(cases) : cases \in SeqsUpTo(CaseCatalogue, MaxCases)}
    /\ pad = Idle
    /\ bb = Idle
    /\ ks = Idle
    /\ rs = Idle
    /\ pt = Idle
    /\ sf = Idle
    /\ cv = Idle
    /\ pp = Idle
    /\ disk = Idle
    /\ rd = Idle
    /\ rl = Idle
    /\ sm = Idle
    /\ ss = Idle
    /\ rp = Idle

\* One pass of the loop of __call__.
ScanCase ==
    /\ fp.pc = "scan"
    /\ fp.i <= Len(fp.cases)
    /\ fp' = scan_case(fp)
    /\ UNCHANGED <<pad, bb, ks, rs, pt, sf, cv, pp, disk, rd, rl, sm, ss, rp>>

\* zip() is exhausted: the loop is left (fingerprinting.py:47, 69).
ScanEnd ==
    /\ fp.pc = "scan"
    /\ fp.i > Len(fp.cases)
    /\ fp' = [fp EXCEPT !.pc = "scanned"]
    /\ UNCHANGED <<pad, bb, ks, rs, pt, sf, cv, pp, disk, rd, rl, sm, ss, rp>>

NextScan == ScanCase \/ ScanEnd

SpecScan == InitScan /\ [][NextScan]_vars

\* C5: for every positive spacing s, check_anisotrophy(s) as invoked during
\* the per-case scan returns true iff max(s)/min(s) >= 3; it returns false,
\* without raising, when the ratio is below 3; the result does not depend on
\* the order of the axes of s.
C5_AnisotropyIffRatioAtLeast3 ==
    /\ fp.err # "AttributeError"
    /\ \A k \in 1..Len(fp.anisotrophy) :
           fp.anisotrophy[k] = (SeqMax(fp.pixdim[k]) >= 3 * SeqMin(fp.pixdim[k]))
    /\ fp.pc = "scanned" => Len(fp.anisotrophy) = Len(fp.cases)

\* The accumulators the scan appends to.
Accumulated(self) ==
    <<self.dim, self.pixdim, self.anisotrophy, self.orientation, self.bbox, self.names>>

\* The case the next pass of the loop loads has one affine and one shape.
SameMetadata(c) ==
    /\ c.img.affine = c.mask.affine /\ c.img.affine = c.annot.affine
    /\ c.img.shape = c.mask.shape /\ c.img.shape = c.annot.shape

C14_Pass ==
    (fp.pc = "scan" /\ fp.i <= Len(fp.cases)) =>
        IF SameMetadata(fp.cases[fp.i])
        THEN fp'.err # "AssertionError"
        ELSE /\ fp'.pc = "raised" /\ fp'.err = "AssertionError"
             /\ Accumulated(fp') = Accumulated(fp)

\* C14: for every case, if image, mask and annotation do not all share the
\* same affine and the same shape, sanity_same_metadata raises before any
\* statistic of that case is appended to the accumulators; if they all match
\* it does not raise.
C14_MetadataMismatchRaisesFirst == [][C14_Pass]_vars

\* The second case of a dataset has another annotation affine: the scan has
\* raised with the statistics of the first case only.
C14_Witness ==
    /\ fp.pc = "raised" /\ fp.err = "AssertionError"
    /\ fp.i = 2
    /\ fp.cases[2].annot.affine # fp.cases[2].img.affine
    /\ Len(fp.dim) = 1 /\ Len(fp.names) = 1

\* Some voxel of the annotation (> 0.5) lies on a mask voxel that is not 1.
AnnotationOutsideMask(c) == \E v \in c.annot.fg : v \notin c.mask.fg

\* C15: an annotation voxel on a mask voxel that is not 1 is non-fatal: the
\* annotation-in-mask check raises no error and the scan continues with the
\* remaining cases.
C15_AnnotationOutsideMaskNonFatal ==
    \A k \in 1..Len(fp.cases) :
        (AnnotationOutsideMask(fp.cases[k]) /\ SameMetadata(fp.cases[k])) =>
            ~(fp.pc = "raised" /\ fp.i = k)

\* The voxel relaxation the bounding box of the scan is documented to have.
DefaultRelaxation == <<10, 10, 2>>

\* C23: the box shape recorded for every case of the scan is (upper corner -
\* lower corner) of the mask's foreground box relaxed by (10,10,2) voxels and
\* clamped to the volume.
C23_BBoxRelaxedByDefault ==
    \A j \in 1..Len(fp.bbox) :
        LET box == calculate_bbox(fp.cases[j].mask, DefaultRelaxation).bbox
        IN  fp.bbox[j] = [a \in Axes |-> box[2][a] - box[1][a]]

(***************************************************************************)
(* FingerPrint.crossval (fingerprinting.py:253-262)                        *)
(*                                                                         *)
(* sklearn's KFold(n_splits, random_state, shuffle=True): the constructor  *)
(* raises ValueError for n_splits <= 1; split(X) raises ValueError for     *)
(* n_splits > len(X); otherwise the indices 0..n-1 are shuffled by the     *)
(* generator of the seed, the first n % n_splits folds take n // n_splits  *)
(* + 1 consecutive shuffled indices and the others n // n_splits, and each *)
(* fold yields the indices outside and inside it, both in ascending order. *)
(* The shuffle is a function of the seed and n that the model does not     *)
(* compute: a call takes any permutation.                                  *)
(***************************************************************************)
MaxNames == 4
MaxFolds == 4

\* An optional integer: <<>> is Python's None, <<v>> the integer v.
NoSeed == <<>>

Int1(v) == <<v>>

\* The seeds a caller passes: None (the default), or an integer the
\* generator accepts (0 .. 2**32 - 1).
Seeds == {NoSeed} \cup {Int1(v) : v \in {0, 1, 2}}

\* random.randint(0, 2**32 - 1) returns any integer of that range; three of
\* them.
RandomSeeds == {0, 3, Pow2(30)}

Perms(n) == {f \in [1..n -> 1..n] : \A a, b \in 1..n : f[a] = f[b] => a = b}

\* Mutant of fold_size: the remainder n % n_splits is dropped.
fold_size_floor(n, n_splits, f) == n \div n_splits

\* The size of fold f (1-based).
fold_size(n, n_splits, f) ==
    n \div n_splits + (IF f <= n % n_splits THEN 1 ELSE 0)

RECURSIVE fold_start(_, _, _)
\* The number of shuffled indices before fold f.
fold_start(n, n_splits, f) ==
    IF f = 1 THEN 0
    ELSE fold_start(n, n_splits, f - 1) + fold_size(n, n_splits, f - 1)

\* The positions (1-based) of the samples in fold f, for the shuffle perm.
test_indices(n, n_splits, f, perm) ==
    {perm[j] : j \in (fold_start(n, n_splits, f) + 1) ..
                     (fold_start(n, n_splits, f) + fold_size(n, n_splits, f))}

RECURSIVE pick(_, _, _)
\* [names[i] for i in index]: the names at the positions in S, ascending,
\* from position i on.
pick(names, S, i) ==
    IF i > Len(names) THEN <<>>
    ELSE (IF i \in S THEN <<names[i]>> ELSE <<>>) \o pick(names, S, i + 1)

\* fingerprinting.py:258-262 for the shuffle perm.
kf_split(names, n_splits, perm) ==
    [f \in 1..n_splits |->
        LET val == test_indices(Len(names), n_splits, f, perm)
        IN  [train |-> pick(names, (1..Len(names)) \ val, 1),
             val |-> pick(names, val, 1)]]

\* fingerprinting.py:254-255: `if not self.seed` is true for None and for 0.
effective_seed(seed, drawn) ==
    IF seed = NoSeed \/ seed = Int1(0) THEN Int1(drawn) ELSE seed

\* The whole method for the value drawn by randint and the shuffle perm:
\* [err, seed, splits], seed being self.seed after the call.
crossval(self, drawn, perm) ==
    LET seed == effective_seed(self.seed, drawn)
    IN  IF self.folds <= 1 \/ self.folds > Len(self.names)
        THEN [err |-> "ValueError", seed |-> seed, splits |-> <<>>]
        ELSE [err |-> "none", seed |-> seed,
              splits |-> kf_split(self.names, self.folds, perm)]

InitCrossval ==
    /\ cv \in {[pc |-> "entry", names |-> [i \in 1..n |-> i], folds |-> k,
                seed0 |-> s, seed |-> s, splits |-> <<>>, err |-> "none"] :
                    n \in 1..MaxNames, k \in 1..MaxFolds, s \in Seeds}
    /\ pad = Idle
    /\ bb = Idle
    /\ ks = Idle
    /\ rs = Idle
    /\ pt = Idle
    /\ fp = Idle
    /\ sf = Idle
    /\ pp = Idle
    /\ disk = Idle
    /\ rd = Idle
    /\ rl = Idle
    /\ sm = Idle
    /\ ss = Idle
    /\ rp = Idle

\* fingerprinting.py:108
CrossvalCall ==
    /\ cv.pc = "entry"
    /\ \E drawn \in RandomSeeds, perm \in Perms(Len(cv.names)) :
          LET r == crossval(cv, drawn, perm)
          IN  cv' = [cv EXCEPT !.pc = IF r.err = "none" THEN "done" ELSE "raised",
                               !.err = r.err, !.seed = r.seed, !.splits = r.splits]
    /\ UNCHANGED <<pad, bb, ks, rs, pt, fp, sf, pp, disk, rd, rl, sm, ss, rp>>

NextCrossval == CrossvalCall

SpecCrossval == InitCrossval /\ [][NextCrossval]_vars

SeqSet(q) == {q[i] : i \in 1..Len(q)}

NoRepeats(q) == Cardinality(SeqSet(q)) = Len(q)

\* What the claim says of the splits of a call over the names with K folds.
IsPartitionIntoFolds(splits, names, K) ==
    /\ Len(splits) = K
    /\ \A f \in 1..K :
          /\ NoRepeats(splits[f].train) /\ NoRepeats(splits[f].val)
          /\ SeqSet(splits[f].train) \cap SeqSet(splits[f].val) = {}
          /\ SeqSet(splits[f].train) \cup SeqSet(splits[f].val) = SeqSet(names)
    /\ \A f, g \in 1..K : f # g => SeqSet(splits[f].val) \cap SeqSet(splits[g].val) = {}
    /\ UNION {SeqSet(splits[f].val) : f \in 1..K} = SeqSet(names)
    /\ \A x \in SeqSet(names) :
          Cardinality({f \in 1..K : x \in SeqSet(splits[f].val)}) = 1

\* The claim as stated: every number of folds K <= N.
C11_FoldsPartitionAnyK ==
    (cv.pc # "entry" /\ cv.folds <= Len(cv.names)) =>
        /\ cv.pc = "done"
        /\ IsPartitionIntoFolds(cv.splits, cv.names, cv.folds)

\* C11: crossval over N case names with K folds, 2 <= K <= N, returns K
\* {train, val} pairs whose validation sets are pairwise disjoint and have
\* the full set of names as union, every case being in validation exactly
\* once; within each fold train and val are disjoint and cover all names.
C11_FoldsPartition ==
    (cv.pc # "entry" /\ 2 <= cv.folds /\ cv.folds <= Len(cv.names)) =>
        /\ cv.pc = "done"
        /\ IsPartitionIntoFolds(cv.splits, cv.names, cv.folds)

\* A returned split with folds of unequal size.
C11_Witness ==
    /\ cv.pc = "done"
    /\ Len(cv.names) = 3 /\ cv.folds = 2
    /\ Len(cv.splits[1].val) = 2 /\ Len(cv.splits[2].val) = 1

\* C12: for every integer seed the caller passes, 0 included, crossval uses
\* exactly that seed and the plan records it unchanged (save writes
\* self.seed, fingerprinting.py:281).
C12_SeedUsedUnchanged ==
    (cv.pc = "done" /\ cv.seed0 # NoSeed) => cv.seed = cv.seed0

(***************************************************************************)
(* FingerPrint.sanity_files (fingerprinting.py:116-128)                    *)
(*                                                                         *)
(* A file name is the sequence of its "_"-separated parts; the last part   *)
(* carries the suffixes (".nii.gz").  <<"a", "0000">> is a_0000.nii.gz and *)
(* <<"a">> is a.nii.gz.  A list of files is sorted and without repeats, as *)
(* the files of one directory are.                                         *)
(***************************************************************************)
ImageFiles ==
    {<<"a", "0000">>, <<"a", "0001">>, <<"b", "0000">>, <<"b", "0001">>, <<"c", "0000">>}

LabelFiles == {<<"a">>, <<"b">>, <<"c">>}

\* '_'.join(x.name.split("_")[:-1]): the parts before the last one.
image_base(name) == SubSeq(name, 1, Len(name) - 1)

\* x.with_suffix('').stem of a name with two suffixes: the name without them.
label_stem(name) == name

BaseNames == {image_base(x) : x \in ImageFiles} \cup {label_stem(x) : x \in LabelFiles}

\* The orders in which the sets of one process iterate over the base names:
\* rank[n] is the place of n.  Python leaves the order open.
HashOrders ==
    {r \in [BaseNames -> 1..Cardinality(BaseNames)] :
        \A a, b \in BaseNames : r[a] = r[b] => a = b}

RECURSIVE by_rank(_, _, _)
\* The elements of S by increasing rank, from rank k on.
by_rank(S, rank, k) ==
    IF k > Cardinality(DOMAIN rank) THEN <<>>
    ELSE LET here == {x \in S : rank[x] = k}
         IN  (IF here = {} THEN <<>> ELSE <<CHOOSE x \in here : TRUE>>)
                \o by_rank(S, rank, k + 1)

\* list(set(names)) in a process whose sets iterate in the order rank.
list_set(names, rank) == by_rank(SeqSet(names), rank, 1)

\* zip(a, b, c) stops at the shortest list.
zipped_length(a, b, c) == Min2(Len(a), Min2(Len(b), Len(c)))

\* The whole method: the error it raises, or "none".
sanity_files(images, masks, annotations, rank) ==
    LET len_mask == Len(masks)
        images_names == list_set([i \in 1..Len(images) |-> image_base(images[i])], rank)
        masks_names == list_set([i \in 1..Len(masks) |-> label_stem(masks[i])], rank)
        annotations_names ==
            list_set([i \in 1..Len(annotations) |-> label_stem(annotations[i])], rank)
    IN  IF len_mask = 0 THEN "ZeroDivisionError"
        ELSE IF ~(Len(images) % len_mask = Len(annotations) % len_mask
                    /\ Len(annotations) % len_mask = 0)
        THEN "AssertionError"
        ELSE IF \E i \in 1..zipped_length(images_names, masks_names, annotations_names) :
                    ~(images_names[i] = masks_names[i]
                        /\ masks_names[i] = annotations_names[i])
        THEN "AssertionError"
        ELSE "none"

\* File names compare part by part.
NameLess(x, y) ==
    \E k \in 1..Min2(Len(x), Len(y)) + 1 :
        /\ \A j \in 1..(k - 1) : x[j] = y[j]
        /\ IF k > Len(x) THEN k <= Len(y)
           ELSE k <= Len(y) /\ x[k] # y[k]
                /\ x[k] = CHOOSE m \in {x[k], y[k]} :
                              \A o \in {x[k], y[k]} : m = o \/ <<m, o>> \in
                                  {<<"a", "b">>, <<"a", "c">>, <<"b", "c">>,
                                   <<"0000", "0001">>}

RECURSIVE Sorted(_)
\* sorted(S) for a set of file names.
Sorted(S) ==
    IF S = {} THEN <<>>
    ELSE LET m == CHOOSE x \in S : \A y \in S \ {x} : NameLess(x, y)
         IN  <<m>> \o Sorted(S \ {m})

InitFiles ==
    /\ sf \in {[pc |-> "entry", images |-> Sorted(I), masks |-> Sorted(M),
                annotations |-> Sorted(A), rank |-> r, err |-> "none",
                cases |-> <<>>] :
                    I \in SUBSET ImageFiles, M \in SUBSET LabelFiles,
                    A \in SUBSET LabelFiles, r \in HashOrders}
    /\ pad = Idle
    /\ bb = Idle
    /\ ks = Idle
    /\ rs = Idle
    /\ pt = Idle
    /\ fp = Idle
    /\ cv = Idle
    /\ pp = Idle
    /\ disk = Idle
    /\ rd = Idle
    /\ rl = Idle
    /\ sm = Idle
    /\ ss = Idle
    /\ rp = Idle

\* fingerprinting.py:35: the constructor runs the check.
SanityFilesCall ==
    /\ sf.pc = "entry"
    /\ LET e == sanity_files(sf.images, sf.masks, sf.annotations, sf.rank)
       IN  sf' = [sf EXCEPT !.pc = IF e = "none" THEN "accepted" ELSE "raised",
                            !.err = e]
    /\ UNCHANGED <<pad, bb, ks, rs, pt, fp, cv, pp, disk, rd, rl, sm, ss, rp>>

\* fingerprinting.py:47-48: the triples the loop of __call__ goes through,
\* zip(self.images, self.masks, self.annotations).
zip3(images, masks, annotations) ==
    [k \in 1..zipped_length(images, masks, annotations) |->
        [img_path |-> images[k], mask_path |-> masks[k], annot_path |-> annotations[k]]]

\* fingerprinting.py:44-67: the accepted lists are scanned.  Line 46 reads
\* self.images[0]: IndexError when there is no image.
ZipFiles ==
    /\ sf.pc = "accepted"
    /\ sf' = IF Len(sf.images) = 0
             THEN [sf EXCEPT !.pc = "raised", !.err = "IndexError"]
             ELSE [sf EXCEPT !.pc = "scanned",
                             !.cases = zip3(sf.images, sf.masks, sf.annotations)]
    /\ UNCHANGED <<pad, bb, ks, rs, pt, fp, cv, pp, disk, rd, rl, sm, ss, rp>>

NextFiles == SanityFilesCall \/ ZipFiles

SpecFiles == InitFiles /\ [][NextFiles]_vars

ImageBases == {image_base(sf.images[i]) : i \in 1..Len(sf.images)}

MaskStems == {label_stem(sf.masks[i]) : i \in 1..Len(sf.masks)}

AnnotationStems == {label_stem(sf.annotations[i]) : i \in 1..Len(sf.annotations)}

\* C13: constructing the analyzer fails whenever the derived base names of
\* the three collections do not align one-to-one: no dataset in which some
\* mask or annotation name has no matching image name, or the other way
\* round, is accepted.
C13_MisalignedNamesRejected ==
    sf.pc = "accepted" => (ImageBases = MaskStems /\ MaskStems = AnnotationStems)

\* C29: for every dataset sanity_files accepts, several image files per
\* mask included, every case of the scan combines an image, a mask and an
\* annotation of one base name, and there is exactly one case per mask.
\* Stated for the datasets whose three collections have the same base
\* names, one mask and one annotation each.
C29_CasesShareBaseName ==
    (/\ sf.pc = "scanned"
     /\ ImageBases = MaskStems /\ MaskStems = AnnotationStems
     /\ Len(sf.annotations) = Len(sf.masks)) =>
        /\ \A k \in 1..Len(sf.cases) :
              /\ image_base(sf.cases[k].img_path) = label_stem(sf.cases[k].mask_path)
              /\ label_stem(sf.cases[k].mask_path) = label_stem(sf.cases[k].annot_path)
        /\ Len(sf.cases) = Len(sf.masks)

(***************************************************************************)
(* FingerPrint.__call__ after the scan (fingerprinting.py:69-114), and     *)
(* save.  Voxel counts are integers; a median of voxel counts is the       *)
(* rational <<twice the median, 2>>.                                       *)
(***************************************************************************)
\* Twice statistics.median(vals).
median2(vals) ==
    LET n == Len(vals)
    IN  IF n % 2 = 1 THEN 2 * kth(vals, (n + 1) \div 2)
        ELSE kth(vals, n \div 2) + kth(vals, n \div 2 + 1)

\* calculate_median for voxel counts.
calculate_median_voxels(item) == [axis \in Axes |-> <<median2(column(item, axis)), 2>>]

\* fingerprinting.py:76, 236-238: (spacing_ratio * shape).astype(int), the
\* ratio being pixdim / target_spacing.
calculate_new_shape(shape, pixdim, target_spacing) ==
    [a \in Axes |-> (shape[a] * pixdim[a]) \div target_spacing[a]]

RECURSIVE kernels_loop(_, _, _, _)
\* The loop of get_kernels_strides run to its return.
kernels_loop(sizes, spacings, kernels, strides) ==
    LET stride == stride_layer(sizes, spacings)
        kernel == kernel_layer(spacings)
    IN  IF AllOnes(stride)
        THEN [kernels |-> Append(kernels, [i \in 1..Len(spacings) |-> 3]),
              strides |-> <<[i \in 1..Len(spacings) |-> 1]>> \o strides]
        ELSE kernels_loop([i \in 1..Len(sizes) |-> <<sizes[i][1], sizes[i][2] * stride[i]>>],
                          [i \in 1..Len(spacings) |-> spacings[i] * stride[i]],
                          Append(kernels, kernel), Append(strides, stride))

\* fingerprinting.py:177-194 for rational sizes.
get_kernels_strides(sizes, spacings) == kernels_loop(sizes, spacings, <<>>, <<>>)

RECURSIVE get_divisible(_)
\* fingerprinting.py:196-201: the product of the strides, axis by axis.
get_divisible(strides) ==
    IF strides = <<>> THEN <<1, 1, 1>>
    ELSE LET d == get_divisible(Tail(strides))
             stride == Head(strides)
         IN  <<d[1] * stride[1], d[2] * stride[2], d[3] * stride[3]>>

\* fingerprinting.py:155-164: whether all images have one orientation.
check_orientation(orientations) == Cardinality(SeqSet(orientations)) = 1

\* all(self.anisotrophy)
all_true(flags) == \A k \in 1..Len(flags) : flags[k]

\* fingerprinting.py:264-297: the record written to plans.json.
plans_json(self) ==
    [Fingerprint |->
        [In_mask |-> self.in_mask,
         Anisotropic |-> all_true(self.anisotrophy),
         Resampling |-> self.resample_strategy,
         Target_spacing |-> self.target_spacing,
         Median_size |-> self.median_dim,
         Median_size_bbox |-> self.median_bbox,
         Median_size_resampled |-> self.median_resampled_shape,
         Median_final_shape |-> self.median_final_shape],
     Plans |->
        [kernels |-> self.kernels, strides |-> self.strides,
         padding |-> self.relax_bbox, divisible_by |-> self.divisible_by,
         seed |-> self.seed, number_of_folds |-> self.folds, splits |-> self.splits],
     Cases |->
        [idx \in 1..Len(self.names) |->
            [name |-> self.names[idx], dimensions |-> self.dim[idx],
             pixdims |-> self.pixdim[idx], orientations |-> self.orientation[idx],
             bbox |-> self.bbox[idx], resampled_shape |-> self.resampled_shape[idx],
             final_shape |-> self.final_shape[idx]]]]

\* fingerprinting.py:75-104: the attributes set before the splits are made.
fingerprint(self) ==
    LET rs0 == get_resampling_strategy(self.anisotrophy, self.pixdim)
        target == rs0.target_spacing
        resampled == [k \in 1..Len(self.bbox) |->
                         calculate_new_shape(self.bbox[k], self.pixdim[k], target)]
        median_resampled == calculate_median_voxels(resampled)
        net == get_kernels_strides(median_resampled, target)
        divisible_by == get_divisible(net.strides)
        final == [k \in 1..Len(resampled) |->
                     calculate_padded_shape(resampled[k], self.relax_bbox, divisible_by).val]
    IN  [target_spacing |-> target,
         resample_strategy |-> rs0.strategy,
         median_dim |-> calculate_median_voxels(self.dim),
         median_bbox |-> calculate_median_voxels(self.bbox),
         resampled_shape |-> resampled,
         median_resampled_shape |-> median_resampled,
         kernels |-> net.kernels, strides |-> net.strides,
         divisible_by |-> divisible_by,
         final_shape |-> final,
         median_final_shape |-> calculate_median_voxels(final),
         same_orientation |-> check_orientation(self.orientation)]

\* fingerprinting.py:69-114 for the value randint draws and the shuffle perm:
\* the object after the call.  An error of crossval leaves the call before
\* save.
finish(self, drawn, perm) ==
    LET f == fingerprint(self)
        cvr == crossval(self, drawn, perm)
        s1 == [k \in (DOMAIN self \cup DOMAIN f) \ {"splits", "seed", "pc", "err"} |->
                  IF k \in DOMAIN f THEN f[k] ELSE self[k]]
    IN  s1 @@ [seed |-> cvr.seed, splits |-> cvr.splits, err |-> cvr.err,
               pc |-> IF cvr.err = "none" THEN "done" ELSE "raised"]

(***************************************************************************)
(* The program of preprocessing.py (lines 145-162): the files of the task  *)
(* are listed and sorted, a FingerPrint is constructed and called, then a  *)
(* Preprocessing is constructed from its results and called.               *)
(*                                                                         *)
(* A dataset is [cases, fault, complete]: the content of the files of each *)
(* case; for each case the transform of the pipeline that raises on it     *)
(* ("none" when none does: an unreadable file, a mask that loses its       *)
(* foreground in resampling); and whether the annotation of the last case  *)
(* is present.  The files of case k are k_0000.nii.gz in imagesTr and      *)
(* k.nii.gz in labelsTr and interactionTr.                                 *)
(***************************************************************************)
MaxMainCases == 5

\* fingerprinting.py:21-23: the defaults the program constructs with.
DefaultRelaxBbox == <<1, 10>>

DefaultFolds == 5

MainGood == GoodCase(mm(<<1, 1, 3>>))

\* The transforms whose failure the datasets include.
Faults == {"LoadImaged", "BoudingBoxd", "EGDMapd"}

AllGood(n) == [j \in 1..n |-> MainGood]

NoFault(n) == [j \in 1..n |-> "none"]

\* Datasets of good cases in which at most one thing is wrong: one case is
\* another case of the catalogue, or one case has a fault, or the last
\* annotation is missing.
MainDatasets ==
    UNION {
        {[cases |-> AllGood(n), fault |-> NoFault(n), complete |-> b] : b \in BOOLEAN}
        \cup {[cases |-> [AllGood(n) EXCEPT ![k] = c], fault |-> NoFault(n),
               complete |-> TRUE] : k \in 1..n, c \in CaseCatalogue \ {MainGood}}
        \cup {[cases |-> AllGood(n), fault |-> [NoFault(n) EXCEPT ![k] = f],
               complete |-> TRUE] : k \in 1..n, f \in Faults}
        : n \in 1..MaxMainCases}

ImageFile(k) == <<k, "0000">>

LabelFile(k) == <<k>>

\* preprocessing.py:151-153, 159: the three sorted lists of files.
images_of(ds) == [k \in 1..Len(ds.cases) |-> ImageFile(k)]

masks_of(ds) == [k \in 1..Len(ds.cases) |-> LabelFile(k)]

annotations_of(ds) ==
    [k \in 1..(IF ds.complete THEN Len(ds.cases) ELSE Len(ds.cases) - 1) |-> LabelFile(k)]

\* Two of the orders in which sets iterate over the names of n cases.
MainHashOrders(n) ==
    {[x \in {LabelFile(k) : k \in 1..n} |-> x[1]],
     [x \in {LabelFile(k) : k \in 1..n} |-> n + 1 - x[1]]}

\* Two of the shuffles of n indices.
MainShuffles(n) == {[i \in 1..n |-> i], [i \in 1..n |-> n + 1 - i]}

\* zip(self.images, self.masks, self.annotations) of fingerprinting.py:47,
\* with what nib.load reads from each file.
zipped_cases(ds) ==
    SubSeq(ds.cases, 1, zipped_length(images_of(ds), masks_of(ds), annotations_of(ds)))

NoDisk == [plans |-> <<>>, samples |-> {}, metadata |-> <<>>]

NoPreprocessing == [pc |-> "none"]

\* read_processed has not been called.
NoRead == [pc |-> "none"]

Init ==
    /\ fp \in {[pc |-> "new", err |-> "none", ds |-> ds] : ds \in MainDatasets}
    /\ pp = NoPreprocessing
    /\ disk = NoDisk
    /\ rd = Idle
    /\ rl = Idle
    /\ sm = Idle
    /\ ss = Idle
    /\ pad = Idle
    /\ bb = Idle
    /\ ks = Idle
    /\ rs = Idle
    /\ pt = Idle
    /\ sf = Idle
    /\ cv = Idle
    /\ rp = NoRead

\* preprocessing.py:159, fingerprinting.py:25-42.
Construct ==
    /\ fp.pc = "new"
    /\ \E rank \in MainHashOrders(Len(fp.ds.cases)) :
          LET e == sanity_files(images_of(fp.ds), masks_of(fp.ds), annotations_of(fp.ds), rank)
          IN  fp' = IF e # "none"
                    THEN [fp EXCEPT !.pc = "raised", !.err = e]
                    ELSE [FingerPrintInit(zipped_cases(fp.ds)) EXCEPT !.pc = "constructed"]
                         @@ [ds |-> fp.ds, relax_bbox |-> DefaultRelaxBbox,
                             seed |-> NoSeed, folds |-> DefaultFolds]
    /\ UNCHANGED <<pad, bb, ks, rs, pt, sf, cv, pp, disk, rd, rl, sm, ss, rp>>

\* preprocessing.py:160, fingerprinting.py:44-46: the call starts.  The
\* list of images is not empty.
CallFingerPrint ==
    /\ fp.pc = "constructed"
    /\ fp' = [fp EXCEPT !.pc = "scan"]
    /\ UNCHANGED <<pad, bb, ks, rs, pt, sf, cv, pp, disk, rd, rl, sm, ss, rp>>

\* fingerprinting.py:69-114.  Without a case the loop never set
\* self.in_mask and line 71 raises AttributeError.  save is the last
\* statement: plans.json is written when nothing before it raised.
Finish ==
    /\ fp.pc = "scanned"
    /\ IF Len(fp.cases) = 0
       THEN /\ fp' = Raise(fp, "AttributeError")
            /\ disk' = disk
       ELSE \E drawn \in RandomSeeds, perm \in MainShuffles(Len(fp.names)) :
               /\ fp' = finish(fp, drawn, perm)
               /\ disk' = IF fp'.pc = "done"
                          THEN [disk EXCEPT !.plans = <<plans_json(fp')>>]
                          ELSE disk
    /\ UNCHANGED <<pad, bb, ks, rs, pt, sf, cv, pp, rd, rl, sm, ss, rp>>

(***************************************************************************)
(* Preprocessing (preprocessing.py:20-143).  A transform of the pipeline   *)
(* is [name, writes, arg]: the entries of the item it replaces and the     *)
(* argument the constructor gave it.  An entry of the item is the list of  *)
(* the transforms that have written it, each with its argument; egd_from   *)
(* is the image entry EGDMapd read.                                        *)
(***************************************************************************)
Keys == {"image", "annotation", "mask"}

Transform(name, writes, arg) == [name |-> name, writes |-> writes, arg |-> arg]

\* Mutant of Compose: the distance map is computed before the image is
\* normalized.
Compose_distance_map_first(target_spacing, relax_bbox, divisble_using) ==
    <<Transform("LoadImaged", Keys, <<>>),
      Transform("EnsureChannelFirstd", Keys, <<>>),
      Transform("Visualized", {}, <<>>),
      Transform("Resamplingd", Keys, target_spacing),
      Transform("BoudingBoxd", Keys, <<relax_bbox, divisble_using>>),
      Transform("EGDMapd", {"annotation"}, <<>>),
      Transform("NormalizeIntensityd", {"image"}, <<>>),
      Transform("Visualized", {}, <<>>),
      Transform("DivisiblePadd", Keys, divisble_using),
      Transform("Visualized", {}, <<>>)>>

\* preprocessing.py:42-87
Compose(target_spacing, relax_bbox, divisble_using) ==
    <<Transform("LoadImaged", Keys, <<>>),
      Transform("EnsureChannelFirstd", Keys, <<>>),
      Transform("Visualized", {}, <<>>),
      Transform("Resamplingd", Keys, target_spacing),
      Transform("BoudingBoxd", Keys, <<relax_bbox, divisble_using>>),
      Transform("NormalizeIntensityd", {"image"}, <<>>),
      Transform("Visualized", {}, <<>>),
      Transform("EGDMapd", {"annotation"}, <<>>),
      Transform("DivisiblePadd", Keys, divisble_using),
      Transform("Visualized", {}, <<>>)>>

\* preprocessing.py:30: the default of divisble_using.
DefaultDivisbleUsing == <<16, 16, 8>>

\* Mutant of preprocessing_arguments: divisble_using is left to its default.
preprocessing_arguments_default_divisible(results) ==
    [median_shape |-> results.dim, target_spacing |-> results.target_spacing,
     relax_bbox |-> results.relax_bbox, divisble_using |-> DefaultDivisbleUsing]

\* preprocessing.py:161: the arguments taken from the FingerPrint.
preprocessing_arguments(results) ==
    [median_shape |-> results.dim, target_spacing |-> results.target_spacing,
     relax_bbox |-> results.relax_bbox, divisble_using |-> results.divisible_by]

\* The item self.data[i] before any transform: three paths.
RawItem == [image |-> <<>>, annotation |-> <<>>, mask |-> <<>>, egd_from |-> <<>>]

\* One transform applied to the item.
apply_transform(t, item) ==
    [k \in DOMAIN item |->
        IF k \in t.writes THEN Append(item[k], [t |-> t.name, arg |-> t.arg])
        ELSE IF k = "egd_from" /\ t.name = "EGDMapd" THEN item.image
        ELSE item[k]]

\* preprocessing.py:161, 21-89
ConstructPreprocessing ==
    /\ fp.pc = "done"
    /\ pp.pc = "none"
    /\ LET a == preprocessing_arguments(fp)
       IN  pp' = [pc |-> "constructed", err |-> "none",
                  data |-> zipped_cases(fp.ds), fault |-> fp.ds.fault,
                  relax_bbox |-> a.relax_bbox, divisble_using |-> a.divisble_using,
                  target_spacing |-> a.target_spacing,
                  transforms |-> Compose(a.target_spacing, a.relax_bbox, a.divisble_using),
                  i |-> 1, stage |-> 1, item |-> RawItem, metainfo |-> {}]
    /\ UNCHANGED <<pad, bb, ks, rs, pt, fp, sf, cv, disk, rd, rl, sm, ss, rp>>

\* preprocessing.py:162, 91-93
CallPreprocessing ==
    /\ pp.pc = "constructed"
    /\ pp' = [pp EXCEPT !.pc = "loop"]
    /\ UNCHANGED <<pad, bb, ks, rs, pt, fp, sf, cv, disk, rd, rl, sm, ss, rp>>

\* preprocessing.py:97: the next transform of self.__getitem__(i).  An
\* exception of a transform leaves __getitem__, the loop and __call__:
\* nothing catches it.
ApplyTransform ==
    /\ pp.pc = "loop"
    /\ pp.i <= Len(pp.data)
    /\ pp.stage <= Len(pp.transforms)
    /\ pp' = IF pp.fault[pp.i] = pp.transforms[pp.stage].name
             THEN [pp EXCEPT !.pc = "raised", !.err = "RuntimeError"]
             ELSE [pp EXCEPT !.item = apply_transform(pp.transforms[pp.stage], pp.item),
                             !.stage = pp.stage + 1]
    /\ UNCHANGED <<pad, bb, ks, rs, pt, fp, sf, cv, disk, rd, rl, sm, ss, rp>>

\* preprocessing.py:99-102: the item is recorded and saved, and the loop
\* goes to the next case.
PersistCase ==
    /\ pp.pc = "loop"
    /\ pp.i <= Len(pp.data)
    /\ pp.stage > Len(pp.transforms)
    /\ pp' = [pp EXCEPT !.metainfo = pp.metainfo \cup {CaseName(pp.i)},
                        !.i = pp.i + 1, !.stage = 1, !.item = RawItem]
    /\ disk' = [disk EXCEPT !.samples = disk.samples \cup
                                {[name |-> CaseName(pp.i), item |-> pp.item]}]
    /\ UNCHANGED <<pad, bb, ks, rs, pt, fp, sf, cv, rd, rl, sm, ss, rp>>

\* preprocessing.py:104-105: after the loop metadata.pkl is written.
WriteMetadata ==
    /\ pp.pc = "loop"
    /\ pp.i > Len(pp.data)
    /\ pp' = [pp EXCEPT !.pc = "done"]
    /\ disk' = [disk EXCEPT !.metadata = <<pp.metainfo>>]
    /\ UNCHANGED <<pad, bb, ks, rs, pt, fp, sf, cv, rd, rl, sm, ss, rp>>

\* The files of save_location / "network_input" with the given suffix, as
\* [stem, of]: np.savez adds ".npz" to the name it is given
\* (preprocessing.py:136), save_sample writes name + ".pkl" (line 142) and
\* __call__ writes metadata.pkl into the same folder (lines 104, 108).
glob(d, suffix) ==
    {[stem |-> "case", of |-> s.name] : s \in d.samples} \cup
    (IF suffix = ".pkl" /\ d.metadata # <<>>
     THEN {[stem |-> "metadata", of |-> 0]}
     ELSE {})

\* sorted() of the paths glob returned.  The cases come in the order of
\* their names; where metadata.pkl falls among them depends on the names,
\* here it is last.
RECURSIVE sorted_paths(_)
sorted_paths(files) ==
    IF files = {} THEN <<>>
    ELSE LET first == CHOOSE f \in files : \A g \in files :
                          \/ f = g
                          \/ g.stem = "metadata"
                          \/ (f.stem = "case" /\ g.stem = "case" /\ f.of < g.of)
         IN  <<first>> \o sorted_paths(files \ {first})

\* utils.py:45-58: [err, val]
read_processed(d) ==
    LET arrays == sorted_paths(glob(d, ".npz"))
        metafile == sorted_paths(glob(d, ".pkl"))
    IN  IF Len(arrays) # Len(metafile)
        THEN [err |-> "ValueError", val |-> <<>>]
        ELSE [err |-> "none",
              val |-> [k \in 1..Len(arrays) |->
                          [npz |-> arrays[k], metadata |-> metafile[k]]]]

\* utils.py:45: a collaborator reads the storage location once the
\* preprocessing run is over, completed or not.
ReadProcessed ==
    /\ pp.pc \in {"done", "raised"}
    /\ rp.pc = "none"
    /\ rp' = [pc |-> "done", out |-> read_processed(disk)]
    /\ UNCHANGED <<pad, bb, ks, rs, pt, fp, sf, cv, pp, disk, rd, rl, sm, ss>>

Next ==
    \/ Construct
    \/ CallFingerPrint
    \/ ScanCase
    \/ ScanEnd
    \/ Finish
    \/ ConstructPreprocessing
    \/ CallPreprocessing
    \/ ApplyTransform
    \/ PersistCase
    \/ WriteMetadata
    \/ ReadProcessed

Spec == Init /\ [][Next]_vars

(***************************************************************************)
(* Claims about the program.                                               *)
(***************************************************************************)
Cases == fp.ds.cases

\* The run of the FingerPrint is over.
FingerPrintEnded == fp.pc \in {"done", "raised"}

\* Nothing but annotations outside the mask can be wrong with the dataset:
\* every file is there, there are enough cases for the folds, every case
\* has matching metadata, a mask with foreground and an anisotropic spacing.
OnlyAnnotationDefects ==
    /\ fp.ds.complete
    /\ Len(Cases) >= DefaultFolds
    /\ \A k \in 1..Len(Cases) :
          /\ SameMetadata(Cases[k])
          /\ Cases[k].mask.fg # {}
          /\ SeqMax(Cases[k].pixdim) >= 3 * SeqMin(Cases[k].pixdim)

\* C16: the persisted "In mask" flag is dataset-wide: after the scan of all
\* cases it signals a violation (false) iff at least one case, at any
\* position, has an annotation voxel outside the mask.
C16_InMaskFlagDatasetWide ==
    (FingerPrintEnded /\ OnlyAnnotationDefects) =>
        /\ disk.plans # <<>>
        /\ disk.plans[1].Fingerprint.In_mask
              = ~(\E k \in 1..Len(Cases) : AnnotationOutsideMask(Cases[k]))

\* The run of the Preprocessing is over.
PreprocessingEnded == pp.pc \in {"done", "raised"}

Persisted(k) == \E s \in disk.samples : s.name = CaseName(k)

\* C17: if a stage fails for one case only that case is aborted: every
\* other case of the list, before and after it, is still processed and
\* persisted, and the run-level metadata is still written.
C17_PerCaseFailureIsolation ==
    PreprocessingEnded =>
        /\ disk.metadata # <<>>
        /\ \A k \in 1..Len(pp.data) : pp.fault[k] = "none" => Persisted(k)

\* The fatal errors of fingerprinting the claim names, read off the dataset.
StructuralValidationFails ==
    Len(annotations_of(fp.ds)) % Len(masks_of(fp.ds)) # 0

MetadataValidationFails == \E k \in 1..Len(Cases) : ~SameMetadata(Cases[k])

BoundingBoxFails == \E k \in 1..Len(Cases) : Cases[k].mask.fg = {}

\* C18: if structural validation, metadata validation or bounding-box
\* extraction fails for any case, the analyzer stops: no plans.json is
\* persisted and per-case preprocessing is never started.
C18_FatalFingerprintErrorAbortsRun ==
    (StructuralValidationFails \/ MetadataValidationFails \/ BoundingBoxFails) =>
        /\ fp.pc # "done"
        /\ disk = NoDisk
        /\ rd = Idle
        /\ rl = Idle
        /\ sm = Idle
        /\ ss = Idle
        /\ pp = NoPreprocessing

\* The third of five cases has a mask without foreground: the analyzer
\* raised there after two cases.
C18_Witness ==
    /\ fp.pc = "raised" /\ fp.err = "ValueError"
    /\ Len(Cases) = 5 /\ fp.i = 3 /\ Len(fp.names) = 2
    /\ disk = NoDisk /\ pp = NoPreprocessing

\* The names of the transforms in a list of writes.
TransformNames(h) == [j \in 1..Len(h) |-> h[j].t]

IsPrefix(a, b) == Len(a) <= Len(b) /\ a = SubSeq(b, 1, Len(a))

\* The order of the claim for each entry of the item; EnsureChannelFirstd is
\* part of loading, DivisiblePadd is the final padding.
ImageOrder ==
    <<"LoadImaged", "EnsureChannelFirstd", "Resamplingd", "BoudingBoxd",
      "NormalizeIntensityd", "DivisiblePadd">>

AnnotationOrder ==
    <<"LoadImaged", "EnsureChannelFirstd", "Resamplingd", "BoudingBoxd",
      "EGDMapd", "DivisiblePadd">>

MaskOrder ==
    <<"LoadImaged", "EnsureChannelFirstd", "Resamplingd", "BoudingBoxd", "DivisiblePadd">>

\* The image the distance map is computed from: cropped and normalized.
DistanceMapInput ==
    <<"LoadImaged", "EnsureChannelFirstd", "Resamplingd", "BoudingBoxd",
      "NormalizeIntensityd">>

\* Every stage the item went through came after its predecessor.
InOrder(item) ==
    /\ IsPrefix(TransformNames(item.image), ImageOrder)
    /\ IsPrefix(TransformNames(item.annotation), AnnotationOrder)
    /\ IsPrefix(TransformNames(item.mask), MaskOrder)
    /\ Len(item.annotation) >= 5 => TransformNames(item.egd_from) = DistanceMapInput
    /\ Len(item.annotation) >= 4 => Len(item.image) >= 4 /\ Len(item.mask) >= 4
    /\ Len(item.image) >= 5 => Len(item.annotation) >= 4
    /\ Len(item.image) >= 6 => Len(item.annotation) >= 6

WentThroughAll(item) ==
    /\ TransformNames(item.image) = ImageOrder
    /\ TransformNames(item.annotation) = AnnotationOrder
    /\ TransformNames(item.mask) = MaskOrder
    /\ TransformNames(item.egd_from) = DistanceMapInput

\* C19: every case goes through the stages in the fixed order load,
\* resample, bounding-box extraction, normalization, distance map, final
\* padding, persist; no stage runs before its predecessor has finished for
\* that case, and the distance map is computed from the already normalized,
\* already cropped image.
C19_StagesInFixedOrder ==
    /\ pp.pc \in {"loop", "raised", "done"} => InOrder(pp.item)
    /\ \A s \in disk.samples : WentThroughAll(s.item)

\* Two cases are persisted and the third is on its way.
C19_Witness ==
    /\ pp.pc = "loop" /\ pp.i = 3 /\ pp.stage = 9
    /\ Persisted(1) /\ Persisted(2)

\* The arguments with which the transform called name has written.
ArgsOf(item, name) ==
    UNION {{item[k][j].arg : j \in {j \in 1..Len(item[k]) : item[k][j].t = name}} :
              k \in Keys}

\* C20: the fingerprint computation over all cases, including persisting
\* the record, completes before the preprocessing of any case starts, and
\* the target spacing and divisibility factor used for every case are
\* exactly the values phase 1 produced.
C20_PhaseBarrier ==
    pp.pc # "none" =>
        /\ fp.pc = "done"
        /\ disk.plans # <<>>
        /\ LET plan == disk.plans[1]
               used(item) ==
                   /\ ArgsOf(item, "Resamplingd") \subseteq {plan.Fingerprint.Target_spacing}
                   /\ ArgsOf(item, "DivisiblePadd") \subseteq {plan.Plans.divisible_by}
           IN  /\ used(pp.item)
               /\ \A s \in disk.samples : used(s.item)

\* A case is persisted that was resampled to the target spacing of the plan
\* and padded to its divisibility factor, which is not all ones.
C20_Witness ==
    /\ pp.pc = "done"
    /\ disk.plans # <<>>
    /\ disk.plans[1].Plans.divisible_by = <<4, 4, 1>>
    /\ \E s \in disk.samples :
          /\ ArgsOf(s.item, "DivisiblePadd") = {<<4, 4, 1>>}
          /\ ArgsOf(s.item, "Resamplingd") = {disk.plans[1].Fingerprint.Target_spacing}

\* C27: after Preprocessing.__call__ has completed for N cases, read_processed
\* on the storage location succeeds and returns exactly N entries, each
\* pairing the array bundle of a case with the metadata record of the same
\* case.
C27_ReadProcessedPairsEveryCase ==
    (pp.pc = "done" /\ rp.pc = "done") =>
        /\ rp.out.err = "none"
        /\ Len(rp.out.val) = Len(pp.data)
        /\ \A k \in 1..Len(rp.out.val) :
              /\ rp.out.val[k].metadata.stem = "case"
              /\ rp.out.val[k].npz.of = rp.out.val[k].metadata.of

(***************************************************************************)
(* resample_label (transforms.py:8-56).                                     *)
(*                                                                         *)
(* A label volume is [shape, val]: val gives the class of every voxel of   *)
(* channel 0.  skimage's resize is not in the source: what is known of it  *)
(* is that it interpolates, so the resize of a mask without a voxel has no *)
(* value >= 0.5, the resize of a mask of all voxels has no value < 0.5,    *)
(* and any other mask may select any set of voxels of the target grid.     *)
(***************************************************************************)
MaxClass == 2

\* dtype=np.uint8
Uint8(x) == x % 256

\* transforms.py:9,14: np.zeros(shape, dtype=np.uint8)
zeros_uint8(shape) == [shape |-> shape, val |-> [v \in AllVoxels(shape) |-> 0]]

\* transforms.py:10: np.max(label)
n_class(label) == SetMax({label.val[v] : v \in AllVoxels(label.shape)})

\* transforms.py:18,30,43: label == class_, as the set of its voxels
class_mask(label, class_) == {v \in AllVoxels(label.shape) : label.val[v] = class_}

\* transforms.py:31-40,44-53: the sets `resized >= 0.5` can be for a mask
\* on the grid from_shape resized to shape.
Interpolations(mask, from_shape, shape) ==
    IF mask = {} THEN {{}}
    ELSE IF mask = AllVoxels(from_shape) THEN {AllVoxels(shape)}
    ELSE SUBSET AllVoxels(shape)

\* transforms.py:17-28: the same slice by slice along the last axis, the
\* slices resized to shape_2d and kept at their depth.
SliceInterpolations(mask, from_shape, stack) ==
    LET slice(S, depth_) == {v \in S : v[3] = depth_}
        from_2d == <<from_shape[1], from_shape[2], 1>>
        to_2d == <<stack[1], stack[2], 1>>
        flat(S) == {<<v[1], v[2], 0>> : v \in S}
    IN  {H \in SUBSET AllVoxels(stack) :
            \A depth_ \in 0..(stack[3] - 1) :
                flat(slice(H, depth_)) \in
                    Interpolations(flat(slice(mask, depth_)), from_2d, to_2d)}

\* Mutant of assign: the class id is added to the value the voxel has.
assign_added(reshaped, hit, class_) ==
    [reshaped EXCEPT !.val = [v \in DOMAIN reshaped.val |->
        IF v \in hit THEN Uint8(reshaped.val[v] + class_) ELSE reshaped.val[v]]]

\* transforms.py:28,40,53: reshaped[resized >= 0.5] = class_
assign(reshaped, hit, class_) ==
    [reshaped EXCEPT !.val = [v \in DOMAIN reshaped.val |->
        IF v \in hit THEN Uint8(class_) ELSE reshaped.val[v]]]

\* transforms.py:16-28: the results the loop over the classes class_..n of
\* the slice pass can leave in reshaped_2d.
RECURSIVE slice_pass(_, _, _, _)
slice_pass(label, reshaped_2d, class_, n) ==
    IF class_ > n THEN {reshaped_2d}
    ELSE UNION {slice_pass(label, assign(reshaped_2d, H, class_), class_ + 1, n) :
                  H \in SliceInterpolations(class_mask(label, class_), label.shape,
                                            reshaped_2d.shape)}

\* transforms.py:29-40 and 42-53: the results the loop over the classes
\* class_..n can leave in reshaped, resizing the masks of source.
RECURSIVE volume_pass(_, _, _, _)
volume_pass(source, reshaped, class_, n) ==
    IF class_ > n THEN {reshaped}
    ELSE UNION {volume_pass(source, assign(reshaped, H, class_), class_ + 1, n) :
                  H \in Interpolations(class_mask(source, class_), source.shape,
                                       reshaped.shape)}

\* transforms.py:8-56: the volumes resample_label can return.
resample_label(label, shape, anisotrophy_flag) ==
    LET n == n_class(label)
        stack == <<shape[1], shape[2], label.shape[3]>>
    IN  IF anisotrophy_flag
        THEN UNION {volume_pass(reshaped_2d, zeros_uint8(shape), 1, n) :
                      reshaped_2d \in slice_pass(label, zeros_uint8(stack), 1, n)}
        ELSE volume_pass(label, zeros_uint8(shape), 1, n)

\* Label volumes of two voxels and target grids of one or two voxels.
LabelShapes == {<<2, 1, 1>>, <<1, 1, 2>>}

TargetShapes == {<<1, 1, 1>>, <<2, 1, 1>>, <<1, 1, 2>>}

Labels ==
    UNION {[shape : {s0}, val : [AllVoxels(s0) -> 0..MaxClass]] : s0 \in LabelShapes}

InitLabel ==
    /\ rl \in [pc : {"ready"}, label : Labels, shape : TargetShapes,
               anisotrophy_flag : BOOLEAN, out : {None}]
    /\ pad = Idle
    /\ bb = Idle
    /\ ks = Idle
    /\ rs = Idle
    /\ pt = Idle
    /\ fp = Idle
    /\ sf = Idle
    /\ cv = Idle
    /\ pp = Idle
    /\ disk = Idle
    /\ rd = Idle
    /\ sm = Idle
    /\ ss = Idle
    /\ rp = Idle

\* transforms.py:203
ResampleLabelCall ==
    /\ rl.pc = "ready"
    /\ \E reshaped \in resample_label(rl.label, rl.shape, rl.anisotrophy_flag) :
          rl' = [rl EXCEPT !.pc = "done", !.out = reshaped]
    /\ UNCHANGED <<pad, bb, ks, rs, pt, fp, sf, cv, pp, disk, rd, sm, ss, rp>>

NextLabel == ResampleLabelCall

SpecLabel == InitLabel /\ [][NextLabel]_vars

\* C24: in both paths every voxel of the volume resample_label returns is 0
\* or a class id in 1..max(label), whatever the interpolation selected.
C24_LabelValuesValid ==
    rl.pc = "done" =>
        \A v \in AllVoxels(rl.shape) :
            \/ rl.out.val[v] = 0
            \/ rl.out.val[v] \in 1..n_class(rl.label)

\* Both classes of a two-class label are in the result of the anisotropic
\* path.
C24_Witness ==
    /\ rl.pc = "done"
    /\ rl.anisotrophy_flag
    /\ n_class(rl.label) = 2
    /\ {rl.out.val[v] : v \in AllVoxels(rl.shape)} = {1, 2}

(***************************************************************************)
(* Resamplingd.sanity_in_mask (transforms.py:151-162).  point is a list of *)
(* channels [shape, fg], label a list of channels [shape, val].            *)
(***************************************************************************)
\* Python's any() over a list given as the set of its elements
any(S) == TRUE \in S

\* transforms.py:151-162: [err, val].  label[i] of a label with fewer
\* channels than point raises IndexError.
sanity_in_mask(point, label) ==
    LET sanity_d(i) == {label[i].val[v] = 1 : v \in point[i].fg}
        sanity == {~any(sanity_d(i)) : i \in 1..Len(point)}
    IN  IF Len(label) < Len(point)
        THEN [err |-> "IndexError", val |-> None]
        ELSE [err |-> "none", val |-> ~any(sanity)]

\* The grid of the point and label volumes of SpecSanity.
SanityShape == <<2, 1, 1>>

SanityPoints ==
    LET chan == [shape : {SanityShape}, fg : SUBSET AllVoxels(SanityShape)]
    IN  {<<c>> : c \in chan} \cup {<<c, d>> : c \in chan, d \in chan}

SanityLabels ==
    LET chan == [shape : {SanityShape}, val : [AllVoxels(SanityShape) -> 0..2]]
    IN  {<<c>> : c \in chan} \cup
        {<<c, d>> : c \in chan, d \in chan}

InitSanity ==
    /\ sm \in [pc : {"ready"}, point : SanityPoints, label : SanityLabels, out : {None}]
    /\ pad = Idle
    /\ bb = Idle
    /\ ks = Idle
    /\ rs = Idle
    /\ pt = Idle
    /\ fp = Idle
    /\ sf = Idle
    /\ cv = Idle
    /\ pp = Idle
    /\ disk = Idle
    /\ rd = Idle
    /\ rl = Idle
    /\ ss = Idle
    /\ rp = Idle

\* transforms.py:208
SanityInMaskCall ==
    /\ sm.pc = "ready"
    /\ sm' = [sm EXCEPT !.pc = "done", !.out = sanity_in_mask(sm.point, sm.label)]
    /\ UNCHANGED <<pad, bb, ks, rs, pt, fp, sf, cv, pp, disk, rd, rl, ss, rp>>

NextSanity == SanityInMaskCall

SpecSanity == InitSanity /\ [][NextSanity]_vars

\* Every foreground voxel of every channel of point lies on a voxel of the
\* corresponding label channel that equals 1.
AllPointsInMask ==
    \A i \in 1..Len(sm.point) : \A v \in sm.point[i].fg : sm.label[i].val[v] = 1

\* C25: sanity_in_mask(point, label) returns true iff every foreground voxel
\* of every channel of point lies on a voxel of the corresponding label
\* channel that equals 1.
C25_TrueIffAllPointsInMask ==
    (sm.pc = "done" /\ Len(sm.label) >= Len(sm.point)) =>
        /\ sm.out.err = "none"
        /\ sm.out.val <=> AllPointsInMask

(***************************************************************************)
(* Resamplingd.__call__ (transforms.py:164-233).                            *)
(*                                                                         *)
(* The item d is a function from its keys to its entries.  An image is     *)
(* [shape, orders], orders being the interpolation orders of the resizes   *)
(* it went through; a point volume is a list of channels [shape, fg]; a    *)
(* label volume is a list of one channel [shape, val]; a meta dict is a    *)
(* record.  target_spacing is [kind, val], kind the Python type of the     *)
(* pixdim argument: FingerPrint.get_resampling_strategy returns a tuple    *)
(* (fingerprinting.py:175), plans.json read back gives a list.             *)
(***************************************************************************)
\* f"{key}_meta_dict"
meta_dict(key) ==
    CASE key = "image" -> "image_meta_dict"
      [] key = "annotation" -> "annotation_meta_dict"
      [] key = "mask" -> "mask_meta_dict"
      [] key = "point" -> "point_meta_dict"
      [] key = "label" -> "label_meta_dict"
      [] key = "seg" -> "seg_meta_dict"

\* transforms.py:58-99: every channel resized with order 3, in the
\* anisotropic path slice by slice and then once more with order 0.
resample_image(image, shape, anisotrophy_flag) ==
    [shape |-> shape,
     orders |-> image.orders \o (IF anisotrophy_flag THEN <<3, 0>> ELSE <<3>>)]

\* transforms.py:141-143,197: (spacing_ratio * shape).astype(int), the ratio
\* being image_spacings / target_spacing.
Resamplingd_calculate_new_shape(image_spacings, target_spacing, shape) ==
    <<(image_spacings[1] * shape[1]) \div target_spacing[1],
      (image_spacings[2] * shape[2]) \div target_spacing[2],
      (image_spacings[3] * shape[3]) \div target_spacing[3]>>

\* transforms.py:145-149
Resamplingd_check_anisotrophy(target_spacing, spacing) ==
    check(spacing) \/ check(target_spacing)

\* transforms.py:175,194: `self.target_spacing != image_spacings`, the right
\* side being a list (.tolist()): a tuple never equals a list.
spacing_differs(target_spacing, image_spacings) ==
    target_spacing.kind # "list" \/ target_spacing.val # image_spacings

\* transforms.py:164-233: the outcomes [err, d] of one call, one for every
\* volume resample_label can return.
Resamplingd_call(self, data) ==
    IF Len(self.keys) # 3
    THEN \* 170,174: image is the list of keys, d[image] is unhashable
         {[err |-> "TypeError", d |-> None]}
    ELSE
    LET nimg == self.keys[1]
        has(k) == \E j \in 1..3 : self.keys[j] = k
        has_label == has("label") \/ has("seg")
        read_label == IF has("seg") THEN "seg" ELSE "label"
        write_label == IF has("label") THEN "label" ELSE "seg"
        image == data[nimg]
        image_spacings == data[meta_dict(nimg)].pixdim
        original_shape == image.shape
        resample_flag == spacing_differs(self.target_spacing, image_spacings)
        resample_shape == Resamplingd_calculate_new_shape(
                              image_spacings, self.target_spacing.val, original_shape)
        anisotrophy_flag == Resamplingd_check_anisotrophy(self.target_spacing.val,
                                                         image_spacings)
        new_meta == [new_spacing |-> self.target_spacing.val,
                     new_dim |-> resample_shape]
        update(d, key) == [d EXCEPT ![meta_dict(key)] = new_meta @@ @]
        point == resample_point(data["point"], data["point_meta_dict"].affine,
                                self.target_spacing.val, resample_shape)
        labels == IF has_label
                  THEN {<<l>> : l \in resample_label(data[read_label][1],
                                                     resample_shape, anisotrophy_flag)}
                  ELSE {<<>>}
        returned(label) ==
            LET d1 == IF has("point") /\ has_label
                      THEN ("points_in_mask" :> sanity_in_mask(point.val, label).val) @@ data
                      ELSE data
                d2 == ("resample_flag" :> resample_flag) @@
                      ("anisotrophy_flag" :> anisotrophy_flag) @@ d1
                d3 == update([d2 EXCEPT ![nimg] = resample_image(image, resample_shape,
                                                                 anisotrophy_flag)], nimg)
                d4 == IF has("point")
                      THEN update([d3 EXCEPT !["point"] = point.val], "point")
                      ELSE d3
                d5 == IF has_label
                      THEN update([d4 EXCEPT ![write_label] = label], write_label)
                      ELSE d4
            IN  [err |-> "none", d |-> d5]
    IN  IF ~resample_flag
        THEN \* 215: resample_shape was never assigned
             {[err |-> "UnboundLocalError", d |-> None]}
        ELSE IF has("point") /\ point.err # "none"
        THEN {[err |-> point.err, d |-> None]}
        ELSE {returned(label) : label \in labels}

\* The keys of preprocessing.py:52, the keys whose names the transform
\* looks for, and the keys of test/predict.py:71.
ResKeys ==
    {<<"image", "annotation", "mask">>, <<"image", "point", "label">>,
     <<"image", "annotation">>}

\* Voxel sizes and target spacings in millimetres.
ResSpacings == {<<1, 1, 1>>, <<2, 1, 1>>, <<3, 1, 1>>}

ResShapes == {<<1, 1, 1>>, <<2, 1, 1>>}

\* The items LoadImaged and EnsureChannelFirstd hand over: the three arrays
\* of one case have one shape, every meta dict has the voxel sizes.
ResItems(keys) ==
    LET meta(sp) == [pixdim |-> sp, affine |-> sp]
        item(sp, image, point, label) ==
            (keys[1] :> image) @@ (meta_dict(keys[1]) :> meta(sp)) @@
            (keys[2] :> point) @@ (meta_dict(keys[2]) :> meta(sp)) @@
            (IF Len(keys) = 3
             THEN (keys[3] :> label) @@ (meta_dict(keys[3]) :> meta(sp))
             ELSE <<>>)
    IN  UNION {{item(sp, [shape |-> s0, orders |-> <<>>],
                     <<[shape |-> s0, fg |-> fg]>>, <<[shape |-> s0, val |-> val]>>) :
                   sp \in ResSpacings, fg \in SUBSET AllVoxels(s0),
                   val \in [AllVoxels(s0) -> {0, 1}]} : s0 \in ResShapes}

\* No axis of the resampled grid vanishes.
ResGridNotEmpty(self, data) ==
    \A a \in Axes :
        Resamplingd_calculate_new_shape(data["image_meta_dict"].pixdim,
                                        self.target_spacing.val, data["image"].shape)[a] >= 1

InitResample ==
    /\ \E keys \in ResKeys, kind \in {"tuple", "list"}, pixdim \in ResSpacings :
         \E data \in ResItems(keys) :
            /\ rd = [pc |-> "ready",
                     self |-> [keys |-> keys,
                               target_spacing |-> [kind |-> kind, val |-> pixdim]],
                     data |-> data, out |-> [err |-> "none", d |-> None]]
            /\ ResGridNotEmpty(rd.self, data)
    /\ pad = Idle
    /\ bb = Idle
    /\ ks = Idle
    /\ rs = Idle
    /\ pt = Idle
    /\ fp = Idle
    /\ sf = Idle
    /\ cv = Idle
    /\ pp = Idle
    /\ disk = Idle
    /\ rl = Idle
    /\ sm = Idle
    /\ ss = Idle
    /\ rp = Idle

\* transforms.py:164: one call of the transform, as Compose makes it.
ResamplingdCall ==
    /\ rd.pc = "ready"
    /\ \E out \in Resamplingd_call(rd.self, rd.data) :
          rd' = [rd EXCEPT !.pc = "done", !.out = out]
    /\ UNCHANGED <<pad, bb, ks, rs, pt, fp, sf, cv, pp, disk, rl, sm, ss, rp>>

NextResample == ResamplingdCall

SpecResample == InitResample /\ [][NextResample]_vars

\* The case's spacing is the target spacing.
SpacingEqualsTarget ==
    rd.data["image_meta_dict"].pixdim = rd.self.target_spacing.val

\* C21: when the spacing of a case equals the target spacing, the resampling
\* step completes without error, reports resample_flag false and leaves the
\* three arrays and their shapes as they were.
C21_NoResamplingAtTargetSpacing ==
    (rd.pc = "done" /\ Len(rd.self.keys) = 3 /\ SpacingEqualsTarget) =>
        /\ rd.out.err = "none"
        /\ rd.out.d["resample_flag"] = FALSE
        /\ \A j \in 1..3 : rd.out.d[rd.self.keys[j]] = rd.data[rd.self.keys[j]]

\* The spatial shape of the entry d[key].
spatial_shape(d, key) == IF key = "image" THEN d[key].shape ELSE d[key][1].shape

\* C22: after the resampling step of the preprocessing pipeline (keys image,
\* annotation, mask) the image, the mask and the annotation have the same
\* spatial shape: the truncated product of the original shape and
\* (case spacing / target spacing).
C22_ChannelsResampledAlike ==
    (/\ rd.pc = "done"
     /\ rd.self.keys = <<"image", "annotation", "mask">>
     /\ rd.out.err = "none") =>
        \A key \in {"image", "annotation", "mask"} :
            spatial_shape(rd.out.d, key) =
                Resamplingd_calculate_new_shape(rd.data["image_meta_dict"].pixdim,
                                                rd.self.target_spacing.val,
                                                rd.data["image"].shape)

(***************************************************************************)
(* Preprocessing.save_sample (preprocessing.py:131-143).  The item is      *)
(* given by the list of its keys, in the order the dict holds them.        *)
(***************************************************************************)
\* x.endswith("_meta_dict")
endswith_meta_dict(x) ==
    x \in {meta_dict(key) : key \in {"image", "annotation", "mask", "point", "label", "seg"}}

\* keys[a:b] for 0 <= a <= b <= len(keys), as the set of its elements
key_slice(keys, a, b) == {keys[k] : k \in (a + 1)..b}

\* preprocessing.py:131-143: the keys written to the .npz bundle and the
\* keys written to the .pkl record.
save_sample(keys) ==
    LET objects == Cardinality({k \in 1..Len(keys) : ~endswith_meta_dict(keys[k])})
    IN  [npz |-> key_slice(keys, 0, objects),
         pkl |-> key_slice(keys, objects, Len(keys))]

\* The keys of an item of two arrays after LoadImaged (the meta dicts) and
\* Resamplingd (the two flags, transforms.py:210-211).
ItemKeys ==
    {"image", "mask", "image_meta_dict", "mask_meta_dict",
     "resample_flag", "anisotrophy_flag"}

\* Every order of the keys.
KeyOrders ==
    {q \in [1..Cardinality(ItemKeys) -> ItemKeys] :
        \A a, b \in DOMAIN q : q[a] = q[b] => a = b}

InitSave ==
    /\ ss \in [pc : {"ready"}, keys : KeyOrders, out : {None}]
    /\ pad = Idle
    /\ bb = Idle
    /\ ks = Idle
    /\ rs = Idle
    /\ pt = Idle
    /\ fp = Idle
    /\ sf = Idle
    /\ cv = Idle
    /\ pp = Idle
    /\ disk = Idle
    /\ rd = Idle
    /\ rl = Idle
    /\ sm = Idle
    /\ rp = Idle

\* preprocessing.py:101
SaveSampleCall ==
    /\ ss.pc = "ready"
    /\ ss' = [ss EXCEPT !.pc = "done", !.out = save_sample(ss.keys)]
    /\ UNCHANGED <<pad, bb, ks, rs, pt, fp, sf, cv, pp, disk, rd, rl, sm, rp>>

NextSave == SaveSampleCall

SpecSave == InitSave /\ [][NextSave]_vars

\* C28: for every order of the item's keys the array bundle holds exactly
\* the keys that do not end in "_meta_dict" and the pickled record exactly
\* the keys that do.
C28_SplitByKeyName ==
    ss.pc = "done" =>
        /\ ss.out.npz = {x \in ItemKeys : ~endswith_meta_dict(x)}
        /\ ss.out.pkl = {x \in ItemKeys : endswith_meta_dict(x)}

(***************************************************************************)
(* The FingerPrint object called a second time: results() once more after  *)
(* preprocessing.py:160.  __call__ (fingerprinting.py:44-114) starts its   *)
(* loop over the same files again; the lists of __init__ (lines 37-42),    *)
(* self.seed and self.target_spacing are what the first call left.  first  *)
(* keeps what the first call saved.                                        *)
(***************************************************************************)
CallAgain ==
    /\ fp.pc = "done"
    /\ "first" \notin DOMAIN fp
    /\ fp' = [pc |-> "scan", i |-> 1, first |-> plans_json(fp)] @@ fp
    /\ UNCHANGED <<pad, bb, ks, rs, pt, sf, cv, pp, disk, rd, rl, sm, ss, rp>>

NextTwice ==
    \/ Construct
    \/ CallFingerPrint
    \/ ScanCase
    \/ ScanEnd
    \/ Finish
    \/ CallAgain

SpecTwice == Init /\ [][NextTwice]_vars

\* The second call has returned.
CalledTwice == fp.pc = "done" /\ "first" \in DOMAIN fp

\* C30: a second call of the same FingerPrint object on the same dataset
\* gives the fingerprint of the first call: one entry per case in dim,
\* pixdim, anisotrophy, orientation, bbox and names and in the persisted
\* "Cases" array, and the same fold split.
C30_SecondCallIdempotent ==
    CalledTwice =>
        /\ Len(fp.dim) = Len(fp.cases) /\ Len(fp.pixdim) = Len(fp.cases)
        /\ Len(fp.anisotrophy) = Len(fp.cases) /\ Len(fp.orientation) = Len(fp.cases)
        /\ Len(fp.bbox) = Len(fp.cases) /\ Len(fp.names) = Len(fp.cases)
        /\ Len(disk.plans[1].Cases) = Len(fp.cases)
        /\ disk.plans[1].Fingerprint = fp.first.Fingerprint
        /\ disk.plans[1].Plans.splits = fp.first.Plans.splits

====
